---- MODULE Spec2Model ----
(***************************************************************************)
(* A model of src/vm.py: the frame-based bytecode interpreter.             *)
(*                                                                         *)
(* One Frame is a record (code, locals, data_stack, return_value,          *)
(* f_lasti); the Python call stack of nested Frame.run invocations is the  *)
(* sequence frames (the last element is the running frame).  Scope         *)
(* dictionaries and mutable containers are objects the interpreter shares  *)
(* by reference, so they live in scopes and heap and are named by index.   *)
(* Every opcode handler is one action which includes the loop's            *)
(* f_lasti += 2 that follows it in Frame.run.                              *)
(***************************************************************************)
EXTENDS Integers, Sequences, FiniteSets, TLC

VARIABLES code, frames, scopes, heap, state, result, last

vars == <<code, frames, scopes, heap, state, result, last>>

----------------------------------------------------------------------------
(* Bounds of the model *)

\* integer constants appearing in call sites and containers range over 0..MaxConst
MaxConst == 2
\* the sequences iterated by for-loops have at most MaxIterLen elements
MaxIterLen == 2
\* call sites pass at most MaxPosArgs positional arguments
MaxPosArgs == 3
\* the stack programs push at most MaxDepth values before the opcode they test
MaxDepth == 4
\* the operator programs push at most MaxOperands operands
MaxOperands == 3

(* Program constants *)

CO_VARARGS == 4
CO_VARKEYWORDS == 8
\* the fixed instruction width: Frame.run advances f_lasti by it
UnitWidth == 2

----------------------------------------------------------------------------
(* Values.  Every value x is a pair <<kind, payload>>: x[1] is its kind and *)
(* x[2] its payload, so that values of different kinds can be compared.    *)

IntV(n) == <<"int", n>>
StrV(s) == <<"str", s>>
BoolV(b) == <<"bool", b>>
NoneV == <<"none", 0>>
TupleV(s) == <<"tuple", s>>
\* a code object, named by its key in the variable code
CodeV(id) == <<"code", id>>
\* the closure f of make_function_op: its code and the locals of the frame
\* (self) it closes over; made records what those locals held when
\* make_function_op ran, which f does not use
FuncV(id, sc, made) == <<"func", <<id, sc, made>>>>
\* a function of the builtins module
BuiltinV(nm) == <<"builtin", nm>>
\* getattr(self, nm) for a method of a builtin type: the bound method
MethodV(self, nm) == <<"method", <<self, nm>>>>
\* a reference to a mutable object: heap[a]
RefV(a) == <<"ref", a>>
\* a raised exception (the outcome of a run that did not return)
ErrV(t) == <<"error", t>>

\* heap objects
DictObj(items) == <<"dict", items>>
IterObj(items, pos) == <<"iter", <<items, pos>>>>
ListObj(items) == <<"list", items>>
\* a set holds its elements as a sequence without equal elements
SetObj(items) == <<"set", items>>

----------------------------------------------------------------------------
(* Mappings from names to values: the scope dictionaries *)

EmptyMap == [n \in {} |-> NoneV]
MapPut(m, n, x) == [y \in (DOMAIN m) \cup {n} |-> IF y = n THEN x ELSE m[y]]
MapDel(m, n) == [y \in (DOMAIN m) \ {n} |-> m[y]]
\* dict.update(m, u) on name mappings
MapUpdate(m, u) == [y \in (DOMAIN m) \cup (DOMAIN u) |-> IF y \in DOMAIN u THEN u[y] ELSE m[y]]

\* the builtins mapping handed to every frame; no handler stores into it
Builtins == [n \in {"len", "abs"} |-> BuiltinV(n)]

----------------------------------------------------------------------------
(* Data stack manipulation (Frame.top/topn/pop/push/popn) on a sequence    *)
(* whose last element is the top.                                          *)

Max(a, b) == IF a >= b THEN a ELSE b
Min(a, b) == IF a <= b THEN a ELSE b

\* data_stack[-n:] for n > 0: the last n values, or all of them
LastN(s, n) == SubSeq(s, Max(1, Len(s) - n + 1), Len(s))
\* data_stack[-n:] = [] for n > 0
DropN(s, n) == SubSeq(s, 1, Max(0, Len(s) - n))

top(s) == s[Len(s)]
topn(s, n) == IF n > 0 THEN LastN(s, n) ELSE <<>>
\* the list left by pop()
pop(s) == SubSeq(s, 1, Len(s) - 1)
push(s, vals) == s \o vals
\* a popn that returns the values top first
popn_top_first(s, n) ==
    IF n > 0 THEN [i \in 1..Len(LastN(s, n)) |-> LastN(s, n)[Len(LastN(s, n)) + 1 - i]] ELSE <<>>

\* the values popn returns, deepest first
popn(s, n) == IF n > 0 THEN LastN(s, n) ELSE <<>>
\* the list left by popn
popn_rest(s, n) == IF n > 0 THEN DropN(s, n) ELSE s

----------------------------------------------------------------------------
(* Code units and decoded instructions.  An instruction is (op, arg) with  *)
(* arg the decoded operand (dis argval) as a value; the instruction with   *)
(* index i of a stream sits at offset UnitWidth * (i - 1).                 *)

I(op, arg) == [op |-> op, arg |-> arg]

CodeUnit(instrs, varnames, argcount, posonly, kwonly, flags) ==
    [instrs |-> instrs, co_varnames |-> varnames, co_argcount |-> argcount,
     co_posonlyargcount |-> posonly, co_kwonlyargcount |-> kwonly, co_flags |-> flags]

\* Frame.__init__: {instruction.offset: instruction}
instructions_offset(c) ==
    [o \in {UnitWidth * (i - 1) : i \in 1..Len(c.instrs)} |-> c.instrs[(o \div UnitWidth) + 1]]

\* max(self.instructions_offset.keys())
MaxOffset(c) == UnitWidth * (Len(c.instrs) - 1)

\* Frame.__init__; args and kwargs record the call that built the frame,
\* ret_done/ret_first/ran_after record what the frame's return handlers did
Frame(id, loc, args, kwargs) ==
    [code |-> id, locals |-> loc, data_stack |-> <<>>, return_value |-> NoneV,
     f_lasti |-> 0, args |-> args, kwargs |-> kwargs,
     ret_done |-> FALSE, ret_first |-> NoneV, ran_after |-> FALSE]

\* the frame whose run loop is executing, its code and its instruction
Cur == frames[Len(frames)]
CurCode == code[Cur.code]
CurInstr == instructions_offset(CurCode)[Cur.f_lasti]
\* every frame shares the globals dictionary built by VirtualMachine.run
GlobalsId == 1

\* Frame.run: the loop condition holds and the instruction at f_lasti is op
Fetch(op) ==
    /\ state = "running"
    /\ Cur.f_lasti <= MaxOffset(CurCode)
    /\ Cur.f_lasti \in DOMAIN instructions_offset(CurCode)
    /\ CurInstr.op = op

\* what the step that is being taken executes, seen from the state it leaves
LastOf(note) == [op |-> CurInstr.op, arg |-> CurInstr.arg, fr |-> Cur,
                 depth |-> Len(frames), note |-> note]

\* an instruction of the frame runs: note it if a return handler ran before
Ran(fr) == [fr EXCEPT !.ran_after = Cur.ret_done]

\* Frame.run line 70: self.f_lasti += 2
Advance(fr) == [fr EXCEPT !.f_lasti = fr.f_lasti + UnitWidth]

\* the handler ends normally, leaving frame fr, scopes sc and heap hp;
\* then the loop advances
Finish(fr, sc, hp, note) ==
    /\ frames' = [frames EXCEPT ![Len(frames)] = Advance(Ran(fr))]
    /\ scopes' = sc
    /\ heap' = hp
    /\ last' = LastOf(note)
    /\ UNCHANGED <<code, state, result>>

\* an exception of a called frame that the call opcode of its caller turns
\* into the result None
Raise_caught_by_caller(fr, t) ==
    IF Len(frames) = 1
    THEN /\ frames' = [frames EXCEPT ![Len(frames)] = Ran(fr)]
         /\ state' = "raised"
         /\ result' = ErrV(t)
         /\ last' = LastOf("raise")
         /\ UNCHANGED <<code, scopes, heap>>
    ELSE /\ frames' = [SubSeq(frames, 1, Len(frames) - 1) EXCEPT ![Len(frames) - 1] =
                          Advance([@ EXCEPT !.data_stack = push(@, <<NoneV>>)])]
         /\ last' = LastOf("raise")
         /\ UNCHANGED <<code, scopes, heap, state, result>>

\* the handler raises t, leaving frame fr; the exception leaves every
\* Frame.run on the Python stack and VirtualMachine.run
Raise(fr, t) ==
    /\ frames' = [frames EXCEPT ![Len(frames)] = Ran(fr)]
    /\ state' = "raised"
    /\ result' = ErrV(t)
    /\ last' = LastOf("raise")
    /\ UNCHANGED <<code, scopes, heap>>

Stack == Cur.data_stack
WithStack(s) == [Cur EXCEPT !.data_stack = s]

\* bool(x) as the conditional jumps take it
Truthy(x) ==
    CASE x[1] = "int" -> x[2] # 0
      [] x[1] = "bool" -> x[2]
      [] x[1] = "none" -> FALSE
      [] x[1] = "str" -> x[2] # ""
      [] x[1] = "tuple" -> Len(x[2]) > 0
      [] x[1] = "ref" -> IF heap[x[2]][1] \in {"dict", "list", "set"} THEN Len(heap[x[2]][2]) > 0 ELSE TRUE
      [] OTHER -> TRUE

\* x == y on values, as dict keys and the comparisons take it
\* the key as dict compares it: True == 1 and False == 0
RECURSIVE key_norm(_)
key_norm(x) ==
    CASE x[1] = "bool" -> IntV(IF x[2] THEN 1 ELSE 0)
      [] x[1] = "tuple" -> TupleV([i \in 1..Len(x[2]) |-> key_norm(x[2][i])])
      [] OTHER -> x

key_eq(a, b) == key_norm(a) = key_norm(b)

----------------------------------------------------------------------------
(* Load, Store, Delete *)

\* a lookup that asks the globals before the locals
load_name_lookup_globals_first(loc, glob, bi, arg) ==
    IF arg \in DOMAIN glob THEN <<TRUE, glob[arg]>>
    ELSE IF arg \in DOMAIN loc THEN <<TRUE, loc[arg]>>
    ELSE IF arg \in DOMAIN bi THEN <<TRUE, bi[arg]>>
    ELSE <<FALSE, NoneV>>

\* the scope load_name_op reads arg from: locals, then globals, then builtins
load_name_lookup(loc, glob, bi, arg) ==
    IF arg \in DOMAIN loc THEN <<TRUE, loc[arg]>>
    ELSE IF arg \in DOMAIN glob THEN <<TRUE, glob[arg]>>
    ELSE IF arg \in DOMAIN bi THEN <<TRUE, bi[arg]>>
    ELSE <<FALSE, NoneV>>

load_name_op ==
    /\ Fetch("LOAD_NAME")
    /\ LET r == load_name_lookup(scopes[Cur.locals], scopes[GlobalsId], Builtins, CurInstr.arg[2])
       IN IF r[1]
          THEN Finish(WithStack(push(Stack, <<r[2]>>)), scopes, heap, "")
          ELSE Raise(Cur, "NameError")

delete_name_op ==
    /\ Fetch("DELETE_NAME")
    /\ IF CurInstr.arg[2] \in DOMAIN scopes[Cur.locals]
       THEN Finish(Cur, [scopes EXCEPT ![Cur.locals] = MapDel(@, CurInstr.arg[2])], heap, "")
       ELSE Raise(Cur, "KeyError")

store_name_op ==
    /\ Fetch("STORE_NAME")
    /\ IF Len(Stack) = 0
       THEN Raise(Cur, "IndexError")
       ELSE Finish(WithStack(pop(Stack)),
                   [scopes EXCEPT ![Cur.locals] = MapPut(@, CurInstr.arg[2], top(Stack))],
                   heap, "")

\* a load_fast_op that goes on to the globals and the builtins
load_fast_op_falls_back ==
    /\ Fetch("LOAD_FAST")
    /\ LET r == load_name_lookup(scopes[Cur.locals], scopes[GlobalsId], Builtins, CurInstr.arg[2])
       IN IF r[1]
          THEN Finish(WithStack(push(Stack, <<r[2]>>)), scopes, heap, "")
          ELSE Raise(Cur, "UnboundLocalError")

load_fast_op ==
    /\ Fetch("LOAD_FAST")
    /\ IF CurInstr.arg[2] \in DOMAIN scopes[Cur.locals]
       THEN Finish(WithStack(push(Stack, <<scopes[Cur.locals][CurInstr.arg[2]]>>)), scopes, heap, "")
       ELSE Raise(Cur, "UnboundLocalError")

store_fast_op ==
    /\ Fetch("STORE_FAST")
    /\ IF Len(Stack) = 0
       THEN Raise(Cur, "IndexError")
       ELSE Finish(WithStack(pop(Stack)),
                   [scopes EXCEPT ![Cur.locals] = MapPut(@, CurInstr.arg[2], top(Stack))],
                   heap, "")

delete_fast_op ==
    /\ Fetch("DELETE_FAST")
    /\ IF CurInstr.arg[2] \in DOMAIN scopes[Cur.locals]
       THEN Finish(Cur, [scopes EXCEPT ![Cur.locals] = MapDel(@, CurInstr.arg[2])], heap, "")
       ELSE Raise(Cur, "KeyError")

load_global_op ==
    /\ Fetch("LOAD_GLOBAL")
    /\ IF CurInstr.arg[2] \in DOMAIN scopes[GlobalsId]
       THEN Finish(WithStack(push(Stack, <<scopes[GlobalsId][CurInstr.arg[2]]>>)), scopes, heap, "")
       ELSE IF CurInstr.arg[2] \in DOMAIN Builtins
       THEN Finish(WithStack(push(Stack, <<Builtins[CurInstr.arg[2]]>>)), scopes, heap, "")
       ELSE Raise(Cur, "NameError")

delete_global_op ==
    /\ Fetch("DELETE_GLOBAL")
    /\ IF CurInstr.arg[2] \in DOMAIN scopes[GlobalsId]
       THEN Finish(Cur, [scopes EXCEPT ![GlobalsId] = MapDel(@, CurInstr.arg[2])], heap, "")
       ELSE Raise(Cur, "KeyError")

store_global_op ==
    /\ Fetch("STORE_GLOBAL")
    /\ IF Len(Stack) = 0
       THEN Raise(Cur, "IndexError")
       ELSE Finish(WithStack(pop(Stack)),
                   [scopes EXCEPT ![GlobalsId] = MapPut(@, CurInstr.arg[2], top(Stack))],
                   heap, "")

----------------------------------------------------------------------------
(* Stack manipulation and general instructions *)

load_const_op ==
    /\ Fetch("LOAD_CONST")
    /\ Finish(WithStack(push(Stack, <<CurInstr.arg>>)), scopes, heap, "")

pop_top_op ==
    /\ Fetch("POP_TOP")
    /\ IF Len(Stack) = 0
       THEN Raise(Cur, "IndexError")
       ELSE Finish(WithStack(pop(Stack)), scopes, heap, "")

\* a rotation that pushes the other values back in reverse order
rot_n_others_reversed(s, n) ==
    IF Len(s) = 0 THEN <<FALSE, s>>
    ELSE LET first == top(s)
             others == popn(pop(s), n - 1)
             rest == popn_rest(pop(s), n - 1)
         IN <<TRUE, push(push(rest, <<first>>), [i \in 1..Len(others) |-> others[Len(others) + 1 - i]])>>

\* rot_n_op on the list s: first = pop(), others = popn(n - 1), push(first),
\* then push the others one by one; <<FALSE, s>> when pop() raises
rot_n(s, n) ==
    IF Len(s) = 0 THEN <<FALSE, s>>
    ELSE LET first == top(s)
             others == popn(pop(s), n - 1)
             rest == popn_rest(pop(s), n - 1)
         IN <<TRUE, push(push(rest, <<first>>), others)>>

\* the body the four rotation handlers share, for the count n
rot(n) ==
    IF rot_n(Stack, n)[1]
    THEN Finish(WithStack(rot_n(Stack, n)[2]), scopes, heap, "")
    ELSE Raise(Cur, "IndexError")

rot_n_op ==
    /\ Fetch("ROT_N")
    /\ rot(CurInstr.arg[2])

rot_two_op ==
    /\ Fetch("ROT_TWO")
    /\ rot(2)

rot_three_op ==
    /\ Fetch("ROT_THREE")
    /\ rot(3)

rot_four_op ==
    /\ Fetch("ROT_FOUR")
    /\ rot(4)

\* dup_top_op: push(top()); top() raises IndexError on an empty list
dup_top_op ==
    /\ Fetch("DUP_TOP")
    /\ IF Len(Stack) = 0
       THEN Raise(Cur, "IndexError")
       ELSE Finish(WithStack(push(Stack, <<top(Stack)>>)), scopes, heap, "")

\* dup_top_two_op: pushes the values of topn(2), which are fewer than two on
\* a shorter list
dup_top_two_op ==
    /\ Fetch("DUP_TOP_TWO")
    /\ Finish(WithStack(push(Stack, topn(Stack, 2))), scopes, heap, "")

----------------------------------------------------------------------------
(* Functions: make_function_op, the closure f it builds, the call opcodes  *)
(* and the end of Frame.run.                                               *)

make_function_op ==
    /\ Fetch("MAKE_FUNCTION")
    /\ IF Len(Stack) = 0 THEN Raise(Cur, "IndexError")
       ELSE IF Len(Stack) = 1 THEN Raise(WithStack(pop(Stack)), "IndexError")
       ELSE Finish(WithStack(push(popn_rest(Stack, 2), <<FuncV(Stack[Len(Stack) - 1], Cur.locals, scopes[Cur.locals])>>)),
                   scopes, heap, "")

\* f, line 578: {code.co_varnames[i]: args[i] for i in range(code.co_argcount)}
parsed_args(c, args) ==
    [nm \in {c.co_varnames[i] : i \in 1..c.co_argcount} |->
        args[CHOOSE i \in 1..c.co_argcount : c.co_varnames[i] = nm]]

\* f, lines 579-580: dict(self.locals) updated with parsed_args
f_locals(self_locals, parsed) == MapUpdate(self_locals, parsed)

\* the builtins the model gives a result: abs of an integer, len of a tuple
builtin_call(nm, args) ==
    IF nm = "abs" /\ Len(args) = 1 /\ args[1][1] = "int"
    THEN <<TRUE, IntV(IF args[1][2] < 0 THEN 0 - args[1][2] ELSE args[1][2])>>
    ELSE IF nm = "len" /\ Len(args) = 1 /\ args[1][1] = "tuple"
    THEN <<TRUE, IntV(Len(args[1][2]))>>
    ELSE <<FALSE, NoneV>>

\* the attribute names the programs look up as methods
MethodNames == {"count", "index", "missing"}

\* hasattr(x, nm) for nm in MethodNames and for __hash__, which every object
\* has: sequences have count and index
has_attr(x, nm) ==
    CASE nm = "__hash__" -> TRUE
      [] x[1] \in {"tuple", "str"} -> nm \in {"count", "index"}
      [] x[1] = "ref" -> heap[x[2]][1] = "list" /\ nm \in {"count", "index"}
      [] OTHER -> FALSE

\* getattr(x, nm) of an attribute x has: the bound method, or None for the
\* __hash__ of a list, a set or a dict (their classes set __hash__ = None)
get_attr(x, nm) ==
    IF nm = "__hash__" /\ x[1] = "ref" /\ heap[x[2]][1] \in {"dict", "list", "set"}
    THEN NoneV
    ELSE MethodV(x, nm)

\* tuple.count(x) and tuple.index(x) called with args: <<exception or "", value>>
method_call(m, args) ==
    LET t == m[2][1][2]
        hits == {i \in 1..Len(t) : key_eq(t[i], args[1])}
    IN CASE m[2][1][1] = "tuple" /\ Len(args) # 1 -> <<"TypeError", NoneV>>
         [] m[2][1][1] = "tuple" /\ Len(args) = 1 /\ m[2][2] = "count" -> <<"", IntV(Cardinality(hits))>>
         [] m[2][1][1] = "tuple" /\ Len(args) = 1 /\ m[2][2] = "index" ->
              IF hits = {} THEN <<"ValueError", NoneV>>
              ELSE <<"", IntV((CHOOSE i \in hits : \A j \in hits : i <= j) - 1)>>

\* a call whose frame gets the defining frame's locals themselves, updated
\* with the arguments, instead of a copy
Call_aliasing_locals(caller, fn, args, kwargs) ==
    /\ fn[1] = "func"
    /\ fn[2][1][1] = "code"
    /\ Len(args) >= code[fn[2][1][2]].co_argcount
    /\ scopes' = [scopes EXCEPT ![fn[2][2]] = f_locals(@, parsed_args(code[fn[2][1][2]], args))]
    /\ frames' = Append([frames EXCEPT ![Len(frames)] = Ran(caller)],
                        Frame(fn[2][1][2], fn[2][2], args, kwargs))
    /\ last' = LastOf("call")
    /\ UNCHANGED <<code, heap, state, result>>

\* the call fn(*args, **kwargs) made by a call opcode of the running frame,
\* which the opcode left as caller.  A closure f builds the callee's Frame
\* and runs it: the callee becomes the running frame and the caller waits in
\* its call opcode.
Call(caller, fn, args, kwargs) ==
    CASE fn[1] = "func" ->
           IF fn[2][1][1] # "code" THEN Raise(caller, "AttributeError")
           ELSE IF Len(args) < code[fn[2][1][2]].co_argcount THEN Raise(caller, "IndexError")
           ELSE /\ scopes' = Append(scopes, f_locals(scopes[fn[2][2]], parsed_args(code[fn[2][1][2]], args)))
                /\ frames' = Append([frames EXCEPT ![Len(frames)] = Ran(caller)],
                                    Frame(fn[2][1][2], Len(scopes) + 1, args, kwargs))
                /\ last' = LastOf("call")
                /\ UNCHANGED <<code, heap, state, result>>
      [] fn[1] = "builtin" ->
           IF DOMAIN kwargs = {} /\ builtin_call(fn[2], args)[1]
           THEN Finish([caller EXCEPT !.data_stack = push(@, <<builtin_call(fn[2], args)[2]>>)],
                       scopes, heap, "")
           ELSE Raise(caller, "TypeError")
      [] fn[1] = "method" ->
           IF DOMAIN kwargs = {} /\ method_call(fn, args)[1] = ""
           THEN Finish([caller EXCEPT !.data_stack = push(@, <<method_call(fn, args)[2]>>)],
                       scopes, heap, "")
           ELSE Raise(caller, IF DOMAIN kwargs = {} THEN method_call(fn, args)[1] ELSE "TypeError")
      [] OTHER -> Raise(caller, "TypeError")

call_function_op ==
    /\ Fetch("CALL_FUNCTION")
    /\ LET n == CurInstr.arg[2]
           args == popn(Stack, n)
           rest == popn_rest(Stack, n)
       IN IF Len(rest) = 0
          THEN Raise(WithStack(rest), "IndexError")
          ELSE Call(WithStack(pop(rest)), top(rest), args, EmptyMap)

\* dict(zip(kw_tuple, kw_arguments)) with the names as keys
zip_kwargs(names, vals) ==
    [nm \in {names[i][2] : i \in 1..Min(Len(names), Len(vals))} |->
        vals[CHOOSE i \in 1..Min(Len(names), Len(vals)) :
                /\ names[i][2] = nm
                /\ \A j \in (i + 1)..Min(Len(names), Len(vals)) : names[j][2] # nm]]

call_function_kw_op ==
    /\ Fetch("CALL_FUNCTION_KW")
    /\ IF Len(Stack) = 0 THEN Raise(Cur, "IndexError")
       ELSE IF top(Stack)[1] # "tuple" THEN Raise(WithStack(pop(Stack)), "TypeError")
       ELSE LET kw_tuple == top(Stack)[2]
                s1 == pop(Stack)
                kw_arguments == popn(s1, Len(kw_tuple))
                s2 == popn_rest(s1, Len(kw_tuple))
                args == popn(s2, CurInstr.arg[2] - Len(kw_tuple))
                s3 == popn_rest(s2, CurInstr.arg[2] - Len(kw_tuple))
            IN IF Len(s3) = 0
               THEN Raise(WithStack(s3), "IndexError")
               ELSE Call(WithStack(pop(s3)), top(s3), args, zip_kwargs(kw_tuple, kw_arguments))

\* load_method_op: the bound method, or None when hasattr finds no attribute
load_method_op ==
    /\ Fetch("LOAD_METHOD")
    /\ IF Len(Stack) = 0 THEN Raise(Cur, "IndexError")
       ELSE IF has_attr(top(Stack), CurInstr.arg[2])
       THEN Finish(WithStack(push(pop(Stack), <<get_attr(top(Stack), CurInstr.arg[2])>>)), scopes, heap, "found")
       ELSE Finish(WithStack(push(pop(Stack), <<NoneV>>)), scopes, heap, "absent")

\* call_method_op: a callee that is None is not called and None is pushed
call_method_op ==
    /\ Fetch("CALL_METHOD")
    /\ LET args == popn(Stack, CurInstr.arg[2])
           rest == popn_rest(Stack, CurInstr.arg[2])
       IN IF Len(rest) = 0 THEN Raise(WithStack(rest), "IndexError")
          ELSE IF top(rest) = NoneV
          THEN Finish(WithStack(push(pop(rest), <<NoneV>>)), scopes, heap, "absent")
          ELSE Call(WithStack(pop(rest)), top(rest), args, EmptyMap)

return_value_op ==
    /\ Fetch("RETURN_VALUE")
    /\ IF Len(Stack) = 0
       THEN Raise(Cur, "IndexError")
       ELSE Finish([Cur EXCEPT !.data_stack = pop(Stack),
                               !.return_value = top(Stack),
                               !.ret_done = TRUE,
                               !.ret_first = IF Cur.ret_done THEN @ ELSE top(Stack)],
                   scopes, heap, "")

\* the opcodes vm.py defines no handler for (the commented-out handlers)
Unhandled == {"SETUP_FINALLY", "POP_BLOCK", "POP_EXCEPT", "RAISE_VARARGS", "RERAISE",
              "LOAD_DEREF", "STORE_DEREF", "DELETE_DEREF", "LOAD_CLOSURE", "LOAD_CLASSDEREF"}

\* Frame.run line 69: getattr finds no <opname>_op and raises AttributeError
run_no_handler ==
    /\ state = "running"
    /\ Cur.f_lasti <= MaxOffset(CurCode)
    /\ Cur.f_lasti \in DOMAIN instructions_offset(CurCode)
    /\ CurInstr.op \in Unhandled
    /\ Raise(Cur, "AttributeError")

\* Frame.run leaves its loop: f_lasti is past the last offset and run returns
\* return_value, to VirtualMachine.run's caller or to the call opcode of the
\* calling frame, which pushes it and lets its own loop advance; or f_lasti
\* is no key of instructions_offset and the lookup raises KeyError
run_stop ==
    /\ state = "running"
    /\ ~(Cur.f_lasti <= MaxOffset(CurCode) /\ Cur.f_lasti \in DOMAIN instructions_offset(CurCode))
    /\ last' = [op |-> "run", arg |-> Cur.return_value, fr |-> Cur,
                depth |-> Len(frames),
                note |-> IF Cur.f_lasti > MaxOffset(CurCode) THEN "return" ELSE "raise"]
    /\ IF Cur.f_lasti <= MaxOffset(CurCode)
       THEN /\ state' = "raised"
            /\ result' = ErrV("KeyError")
            /\ UNCHANGED <<code, frames, scopes, heap>>
       ELSE IF Len(frames) = 1
       THEN /\ state' = "returned"
            /\ result' = Cur.return_value
            /\ UNCHANGED <<code, frames, scopes, heap>>
       ELSE /\ frames' = [SubSeq(frames, 1, Len(frames) - 1) EXCEPT ![Len(frames) - 1] =
                             Advance([@ EXCEPT !.data_stack = push(@, <<Cur.return_value>>)])]
            /\ UNCHANGED <<code, scopes, heap, state, result>>

----------------------------------------------------------------------------
(* Jumps *)

\* a jump that does not compensate the loop's advance
jump_absolute_pc_uncompensated(target) == target

\* jump_absolute_op: the f_lasti it assigns
jump_absolute_pc(target) == target - 2

jump_absolute_op ==
    /\ Fetch("JUMP_ABSOLUTE")
    /\ Finish([Cur EXCEPT !.f_lasti = jump_absolute_pc(CurInstr.arg[2])], scopes, heap, "jump")

jump_forward_op ==
    /\ Fetch("JUMP_FORWARD")
    /\ Finish([Cur EXCEPT !.f_lasti = @ + CurInstr.arg[2]], scopes, heap, "forward")

\* a JUMP_IF_FALSE_OR_POP that pops the tested value on both branches
jump_if_false_or_pop_op_always_pops ==
    /\ Fetch("JUMP_IF_FALSE_OR_POP")
    /\ IF Len(Stack) = 0 THEN Raise(Cur, "IndexError")
       ELSE IF ~Truthy(top(Stack))
       THEN Finish([Cur EXCEPT !.data_stack = pop(Stack),
                               !.f_lasti = jump_absolute_pc(CurInstr.arg[2])], scopes, heap, "jump")
       ELSE Finish(WithStack(pop(Stack)), scopes, heap, "fall")

jump_if_false_or_pop_op ==
    /\ Fetch("JUMP_IF_FALSE_OR_POP")
    /\ IF Len(Stack) = 0 THEN Raise(Cur, "IndexError")
       ELSE IF ~Truthy(top(Stack))
       THEN Finish([Cur EXCEPT !.f_lasti = jump_absolute_pc(CurInstr.arg[2])], scopes, heap, "jump")
       ELSE Finish(WithStack(pop(Stack)), scopes, heap, "fall")

jump_if_true_or_pop_op ==
    /\ Fetch("JUMP_IF_TRUE_OR_POP")
    /\ IF Len(Stack) = 0 THEN Raise(Cur, "IndexError")
       ELSE IF Truthy(top(Stack))
       THEN Finish([Cur EXCEPT !.f_lasti = jump_absolute_pc(CurInstr.arg[2])], scopes, heap, "jump")
       ELSE Finish(WithStack(pop(Stack)), scopes, heap, "fall")

\* tos1 is not tos: model values are constants of one code unit, which
\* CPython shares, or references, so identity is equality of the values
is_not(a, b) == a # b

jump_if_not_exc_match_op ==
    /\ Fetch("JUMP_IF_NOT_EXC_MATCH")
    /\ LET popped == popn(Stack, 2)
       IN IF Len(popped) < 2
          THEN Raise(WithStack(popn_rest(Stack, 2)), "ValueError")
          ELSE IF is_not(popped[1], popped[2])
          THEN Finish([Cur EXCEPT !.data_stack = popn_rest(Stack, 2),
                                  !.f_lasti = jump_absolute_pc(CurInstr.arg[2])], scopes, heap, "jump")
          ELSE Finish(WithStack(popn_rest(Stack, 2)), scopes, heap, "fall")

pop_jump_if_false_op ==
    /\ Fetch("POP_JUMP_IF_FALSE")
    /\ IF Len(Stack) = 0 THEN Raise(Cur, "IndexError")
       ELSE IF ~Truthy(top(Stack))
       THEN Finish([Cur EXCEPT !.data_stack = pop(Stack),
                               !.f_lasti = jump_absolute_pc(CurInstr.arg[2])], scopes, heap, "jump")
       ELSE Finish(WithStack(pop(Stack)), scopes, heap, "fall")

pop_jump_if_true_op ==
    /\ Fetch("POP_JUMP_IF_TRUE")
    /\ IF Len(Stack) = 0 THEN Raise(Cur, "IndexError")
       ELSE IF Truthy(top(Stack))
       THEN Finish([Cur EXCEPT !.data_stack = pop(Stack),
                               !.f_lasti = jump_absolute_pc(CurInstr.arg[2])], scopes, heap, "jump")
       ELSE Finish(WithStack(pop(Stack)), scopes, heap, "fall")

\* iter(x): a tuple gets a new iterator object, an iterator is its own
\* iterator, a dict is iterated over its keys; <<ok, value, heap>>
iter(x) ==
    CASE x[1] = "tuple" -> <<TRUE, RefV(Len(heap) + 1), Append(heap, IterObj(x[2], 0))>>
      [] x[1] = "ref" /\ heap[x[2]][1] = "iter" -> <<TRUE, x, heap>>
      [] x[1] = "ref" /\ heap[x[2]][1] = "dict" ->
           <<TRUE, RefV(Len(heap) + 1),
             Append(heap, IterObj([i \in 1..Len(heap[x[2]][2]) |-> heap[x[2]][2][i][1]], 0))>>
      [] x[1] = "ref" /\ heap[x[2]][1] \in {"list", "set"} ->
           <<TRUE, RefV(Len(heap) + 1), Append(heap, IterObj(heap[x[2]][2], 0))>>
      [] x[1] \in {"int", "bool", "none", "code", "func", "builtin", "method"} -> <<FALSE, x, heap>>

get_iter_op ==
    /\ Fetch("GET_ITER")
    /\ IF Len(Stack) = 0 THEN Raise(Cur, "IndexError")
       ELSE IF iter(top(Stack))[1]
       THEN Finish(WithStack(push(pop(Stack), <<iter(top(Stack))[2]>>)), scopes, iter(top(Stack))[3], "")
       ELSE Raise(WithStack(pop(Stack)), "TypeError")

\* next(tos) on an iterator object: "yield" with the element and the advanced
\* iterator, or "stop" (StopIteration)
next(it) ==
    IF it[2][2] < Len(it[2][1])
    THEN <<"yield", it[2][1][it[2][2] + 1], IterObj(it[2][1], it[2][2] + 1)>>
    ELSE <<"stop", NoneV, it>>

\* a for_iter_op that leaves the exhausted iterator on the stack
for_iter_op_keeps_iterator ==
    /\ Fetch("FOR_ITER")
    /\ IF Len(Stack) = 0 THEN Raise(Cur, "IndexError")
       ELSE IF ~(top(Stack)[1] = "ref" /\ heap[top(Stack)[2]][1] = "iter") THEN Raise(Cur, "TypeError")
       ELSE LET r == next(heap[top(Stack)[2]])
            IN IF r[1] = "yield"
               THEN Finish(WithStack(push(Stack, <<r[2]>>)),
                           scopes, [heap EXCEPT ![top(Stack)[2]] = r[3]], "yield")
               ELSE Finish([Cur EXCEPT !.f_lasti = jump_absolute_pc(CurInstr.arg[2])],
                           scopes, heap, "stop")

for_iter_op ==
    /\ Fetch("FOR_ITER")
    /\ IF Len(Stack) = 0 THEN Raise(Cur, "IndexError")
       ELSE IF ~(top(Stack)[1] = "ref" /\ heap[top(Stack)[2]][1] = "iter") THEN Raise(Cur, "TypeError")
       ELSE LET r == next(heap[top(Stack)[2]])
            IN IF r[1] = "yield"
               THEN Finish(WithStack(push(Stack, <<r[2]>>)),
                           scopes, [heap EXCEPT ![top(Stack)[2]] = r[3]], "yield")
               ELSE Finish([Cur EXCEPT !.data_stack = pop(Stack),
                                       !.f_lasti = jump_absolute_pc(CurInstr.arg[2])],
                           scopes, heap, "stop")

----------------------------------------------------------------------------
(* Building.  A dict object holds its items as a sequence of <<key, value>> *)
(* pairs in insertion order.                                               *)

\* hash(x) succeeds: dicts, lists and sets are unhashable, and so are tuples
\* holding one
RECURSIVE hashable(_)
hashable(x) ==
    CASE x[1] = "ref" -> heap[x[2]][1] \notin {"dict", "list", "set"}
      [] x[1] = "tuple" -> \A i \in 1..Len(x[2]) : hashable(x[2][i])
      [] OTHER -> TRUE

\* key in d.keys()
dict_has(items, key) == \E i \in 1..Len(items) : key_eq(items[i][1], key)

\* a store that keeps the value of a key the dict already has
dict_setitem_first_wins(items, key, val) ==
    IF dict_has(items, key) THEN items ELSE Append(items, <<key, val>>)

\* d[key] = val: an equal key keeps its place and gets the new value
dict_setitem(items, key, val) ==
    IF dict_has(items, key)
    THEN [i \in 1..Len(items) |-> IF key_eq(items[i][1], key) THEN <<items[i][1], val>> ELSE items[i]]
    ELSE Append(items, <<key, val>>)

\* dict(pairs), dict.update(d, pairs): the pairs set one after the other
RECURSIVE dict_set_all(_, _)
dict_set_all(items, pairs) ==
    IF pairs = <<>> THEN items
    ELSE dict_set_all(dict_setitem(items, pairs[1][1], pairs[1][2]), Tail(pairs))

\* zip(elements[::2], elements[1::2])
zip_pairs(elements) == [i \in 1..(Len(elements) \div 2) |-> <<elements[2 * i - 1], elements[2 * i]>>]

\* build_map_op: dict(zip(elements[::2], elements[1::2]))
build_map(elements) == dict_set_all(<<>>, zip_pairs(elements))

build_map_op ==
    /\ Fetch("BUILD_MAP")
    /\ LET elements == popn(Stack, 2 * CurInstr.arg[2])
           rest == popn_rest(Stack, 2 * CurInstr.arg[2])
       IN IF \E i \in 1..(Len(elements) \div 2) : ~hashable(elements[2 * i - 1])
          THEN Raise(WithStack(rest), "TypeError")
          ELSE Finish(WithStack(push(rest, <<RefV(Len(heap) + 1)>>)),
                      scopes, Append(heap, DictObj(build_map(elements))), "")

build_tuple_op ==
    /\ Fetch("BUILD_TUPLE")
    /\ Finish(WithStack(push(popn_rest(Stack, CurInstr.arg[2]), <<TupleV(popn(Stack, CurInstr.arg[2]))>>)),
              scopes, heap, "")

\* self.data_stack[-i]: the index of the slot in the sequence (0 when the
\* list has no such slot); -0 is 0, the bottom of the stack
stack_slot(s, i) ==
    LET j == IF i > 0 THEN Len(s) - i + 1 ELSE 1 - i
    IN IF j \in 1..Len(s) THEN j ELSE 0

is_dict(x) == x[1] = "ref" /\ heap[x[2]][1] = "dict"
\* iter(x), dict(x) and dict.update(d, x) raise TypeError
not_iterable(x) == x[1] \in {"int", "bool", "none", "code", "func", "builtin", "method"}

build_list_op ==
    /\ Fetch("BUILD_LIST")
    /\ Finish(WithStack(push(popn_rest(Stack, CurInstr.arg[2]), <<RefV(Len(heap) + 1)>>)),
              scopes, Append(heap, ListObj(popn(Stack, CurInstr.arg[2]))), "")

\* set(elements): an element equal to an earlier one is not added
RECURSIVE set_of(_, _)
set_of(items, elements) ==
    IF elements = <<>> THEN items
    ELSE set_of(IF \E i \in 1..Len(items) : key_eq(items[i], elements[1])
                THEN items ELSE Append(items, elements[1]),
                Tail(elements))

build_set_op ==
    /\ Fetch("BUILD_SET")
    /\ LET elements == popn(Stack, CurInstr.arg[2])
           rest == popn_rest(Stack, CurInstr.arg[2])
       IN IF \E i \in 1..Len(elements) : ~hashable(elements[i])
          THEN Raise(WithStack(rest), "TypeError")
          ELSE Finish(WithStack(push(rest, <<RefV(Len(heap) + 1)>>)),
                      scopes, Append(heap, SetObj(set_of(<<>>, elements))), "")

\* zip(keys, values)
zip_keys(keys, values) == [i \in 1..Min(Len(keys), Len(values)) |-> <<keys[i], values[i]>>]

\* build_const_key_map_op: keys = pop(), values = popn(count),
\* dict(zip(keys, values)); the keys are a tuple or a value zip() rejects
build_const_key_map_op ==
    /\ Fetch("BUILD_CONST_KEY_MAP")
    /\ IF Len(Stack) = 0 THEN Raise(Cur, "IndexError")
       ELSE LET keys == top(Stack)
                values == popn(pop(Stack), CurInstr.arg[2])
                rest == popn_rest(pop(Stack), CurInstr.arg[2])
            IN CASE keys[1] = "tuple" ->
                      IF \E i \in 1..Min(Len(keys[2]), Len(values)) : ~hashable(keys[2][i])
                      THEN Raise(WithStack(rest), "TypeError")
                      ELSE Finish(WithStack(push(rest, <<RefV(Len(heap) + 1)>>)), scopes,
                                  Append(heap, DictObj(dict_set_all(<<>>, zip_keys(keys[2], values)))), "")
                 [] not_iterable(keys) -> Raise(WithStack(rest), "TypeError")

\* dict.update(target, tos) for tos a dict or a value that is not iterable:
\* <<ok, the target's items>>
dict_update(items, tos) ==
    CASE is_dict(tos) -> <<TRUE, dict_set_all(items, heap[tos[2]][2])>>
      [] not_iterable(tos) -> <<FALSE, items>>

dict_update_op ==
    /\ Fetch("DICT_UPDATE")
    /\ IF Len(Stack) = 0 THEN Raise(Cur, "IndexError")
       ELSE LET tos == top(Stack)
                rest == pop(Stack)
                j == stack_slot(rest, CurInstr.arg[2])
            IN IF j = 0 THEN Raise(WithStack(rest), "IndexError")
               ELSE IF ~is_dict(rest[j]) \/ ~dict_update(heap[rest[j][2]][2], tos)[1]
               THEN Raise(WithStack(rest), "TypeError")
               ELSE Finish(WithStack(rest), scopes,
                           [heap EXCEPT ![rest[j][2]] = DictObj(dict_update(@[2], tos)[2])], "")

\* dict_merge_op, lines 681-684, on the target's items: hashing tos for the
\* membership test raises TypeError when tos is a dict; a hashable tos that is
\* a key is handed to dict.update, one that is no key raises ValueError.
\* <<the exception or "", the target's items>>
dict_merge(items, tos) ==
    IF ~hashable(tos) THEN <<"TypeError", items>>
    ELSE IF dict_has(items, tos)
    THEN IF dict_update(items, tos)[1] THEN <<"", dict_update(items, tos)[2]>>
         ELSE <<"TypeError", items>>
    ELSE <<"ValueError", items>>

dict_merge_op ==
    /\ Fetch("DICT_MERGE")
    /\ IF Len(Stack) = 0 THEN Raise(Cur, "IndexError")
       ELSE LET tos == top(Stack)
                rest == pop(Stack)
                j == stack_slot(rest, CurInstr.arg[2])
            IN IF j = 0 THEN Raise(WithStack(rest), "IndexError")
               ELSE IF not_iterable(rest[j]) THEN Raise(WithStack(rest), "TypeError")
               ELSE LET r == dict_merge(heap[rest[j][2]][2], tos)
                    IN IF r[1] # ""
                       THEN Raise(WithStack(rest), r[1])
                       ELSE Finish(WithStack(rest), scopes,
                                   [heap EXCEPT ![rest[j][2]] = DictObj(r[2])], "")

----------------------------------------------------------------------------
(* Compare, unary, binary and in-place operations.  The operators are      *)
(* those of the values the programs hold: integers, booleans, None and     *)
(* tuples; each gives <<the exception raised or "", the result>>.          *)

num(x) == x[1] \in {"int", "bool"}
\* the integer a number stands for: True is 1 and False is 0
as_int(x) == IF x[1] = "bool" THEN (IF x[2] THEN 1 ELSE 0) ELSE x[2]

\* t[i] on a tuple: indices count from 0, negative ones from the end
subscr(t, i) ==
    IF i \in 0..(Len(t) - 1) THEN <<"", t[i + 1]>>
    ELSE IF i \in (0 - Len(t))..(0 - 1) THEN <<"", t[Len(t) + i + 1]>>
    ELSE <<"IndexError", NoneV>>

\* left <op> right of the binary and in-place handlers
arith(op, left, right) ==
    CASE left[1] = "none" \/ right[1] = "none" -> <<"TypeError", NoneV>>
      [] op = "[]" /\ left[1] = "tuple" /\ num(right) -> subscr(left[2], as_int(right))
      [] op = "[]" /\ num(left) /\ right[1] # "none" -> <<"TypeError", NoneV>>
      [] op = "+" /\ num(left) /\ num(right) -> <<"", IntV(as_int(left) + as_int(right))>>
      [] op = "-" /\ num(left) /\ num(right) -> <<"", IntV(as_int(left) - as_int(right))>>
      [] op = "*" /\ num(left) /\ num(right) -> <<"", IntV(as_int(left) * as_int(right))>>
      [] op \in {"//", "%"} /\ num(left) /\ num(right) /\ as_int(right) = 0 ->
           <<"ZeroDivisionError", NoneV>>
      [] op = "//" /\ num(left) /\ num(right) /\ as_int(right) > 0 ->
           <<"", IntV(as_int(left) \div as_int(right))>>
      [] op = "%" /\ num(left) /\ num(right) /\ as_int(right) > 0 ->
           <<"", IntV(as_int(left) % as_int(right))>>

\* <op> x of the unary handlers
unary(op, x) ==
    CASE op = "not" -> <<"", BoolV(~Truthy(x))>>
      [] op = "-" /\ num(x) -> <<"", IntV(0 - as_int(x))>>
      [] op = "+" /\ num(x) -> <<"", IntV(as_int(x))>>
      [] op = "~" /\ num(x) -> <<"", IntV(0 - as_int(x) - 1)>>
      [] op # "not" /\ ~num(x) -> <<"TypeError", NoneV>>

\* left in right
contains(left, right) ==
    CASE right[1] = "tuple" -> <<"", BoolV(\E i \in 1..Len(right[2]) : key_eq(right[2][i], left))>>
      [] not_iterable(right) -> <<"TypeError", NoneV>>

negated(r) == IF r[1] = "" THEN <<"", BoolV(~r[2][2])>> ELSE r

\* an ordering comparison of two numbers; None is not ordered
ordered(left, right, holds) ==
    CASE num(left) /\ num(right) -> <<"", BoolV(holds)>>
      [] left[1] = "none" \/ right[1] = "none" -> <<"TypeError", NoneV>>

\* compare_op_op: the result of the branch op selects
compare(op, left, right) ==
    CASE op = "==" -> <<"", BoolV(key_eq(left, right))>>
      [] op = "!=" -> <<"", BoolV(~key_eq(left, right))>>
      [] op = ">" -> ordered(left, right, as_int(left) > as_int(right))
      [] op = "<" -> ordered(left, right, as_int(left) < as_int(right))
      [] op = ">=" -> ordered(left, right, as_int(left) >= as_int(right))
      [] op = "<=" -> ordered(left, right, as_int(left) <= as_int(right))
      [] op = "in" -> contains(left, right)
      [] op = "not in" -> negated(contains(left, right))
      [] op = "is" -> <<"", BoolV(~is_not(left, right))>>
      [] op = "is not" -> <<"", BoolV(is_not(left, right))>>
      [] OTHER -> <<"TypeError", NoneV>>

\* a binary handler that pops right only and pushes the result above left
binary_keeps_left(comparison, op) ==
    LET popped == popn(Stack, 2)
        rest == popn_rest(Stack, 1)
        r == IF comparison THEN compare(op, popped[1], popped[2]) ELSE arith(op, popped[1], popped[2])
    IN IF Len(popped) < 2 THEN Raise(WithStack(rest), "ValueError")
       ELSE IF r[1] = ""
       THEN Finish(WithStack(push(rest, <<r[2]>>)), scopes, heap, "")
       ELSE Raise(WithStack(rest), r[1])

\* left, right = self.popn(2), then push(left <op> right), the operator
\* being a comparison or an arithmetic one: the unpacking raises ValueError
\* when popn found fewer than two values
binary(comparison, op) ==
    LET popped == popn(Stack, 2)
        rest == popn_rest(Stack, 2)
        r == IF comparison THEN compare(op, popped[1], popped[2]) ELSE arith(op, popped[1], popped[2])
    IN IF Len(popped) < 2 THEN Raise(WithStack(rest), "ValueError")
       ELSE IF r[1] = ""
       THEN Finish(WithStack(push(rest, <<r[2]>>)), scopes, heap, "")
       ELSE Raise(WithStack(rest), r[1])

compare_op_op ==
    /\ Fetch("COMPARE_OP")
    /\ binary(TRUE, CurInstr.arg[2])

is_op_op ==
    /\ Fetch("IS_OP")
    /\ binary(TRUE, IF Truthy(CurInstr.arg) THEN "is not" ELSE "is")

contains_op_op ==
    /\ Fetch("CONTAINS_OP")
    /\ binary(TRUE, IF Truthy(CurInstr.arg) THEN "not in" ELSE "in")

\* push(<op> self.pop())
unary_handler(op) ==
    IF Len(Stack) = 0 THEN Raise(Cur, "IndexError")
    ELSE IF unary(op, top(Stack))[1] = ""
    THEN Finish(WithStack(push(pop(Stack), <<unary(op, top(Stack))[2]>>)), scopes, heap, "")
    ELSE Raise(WithStack(pop(Stack)), unary(op, top(Stack))[1])

unary_invert_op ==
    /\ Fetch("UNARY_INVERT")
    /\ unary_handler("~")

unary_negative_op ==
    /\ Fetch("UNARY_NEGATIVE")
    /\ unary_handler("-")

unary_not_op ==
    /\ Fetch("UNARY_NOT")
    /\ unary_handler("not")

unary_positive_op ==
    /\ Fetch("UNARY_POSITIVE")
    /\ unary_handler("+")

binary_add_op ==
    /\ Fetch("BINARY_ADD")
    /\ binary(FALSE, "+")

binary_floor_divide_op ==
    /\ Fetch("BINARY_FLOOR_DIVIDE")
    /\ binary(FALSE, "//")

binary_modulo_op ==
    /\ Fetch("BINARY_MODULO")
    /\ binary(FALSE, "%")

binary_multiply_op ==
    /\ Fetch("BINARY_MULTIPLY")
    /\ binary(FALSE, "*")

binary_subscr_op ==
    /\ Fetch("BINARY_SUBSCR")
    /\ binary(FALSE, "[]")

binary_subtract_op ==
    /\ Fetch("BINARY_SUBTRACT")
    /\ binary(FALSE, "-")

\* left += right on numbers makes a new number, which is pushed
inplace_add_op ==
    /\ Fetch("INPLACE_ADD")
    /\ binary(FALSE, "+")

inplace_multiply_op ==
    /\ Fetch("INPLACE_MULTIPLY")
    /\ binary(FALSE, "*")

inplace_subtract_op ==
    /\ Fetch("INPLACE_SUBTRACT")
    /\ binary(FALSE, "-")

----------------------------------------------------------------------------
(* The code units the interpreter is run on.  A program is a table of code *)
(* units: "main" is handed to VirtualMachine.run, the others are constants *)
(* of main that MAKE_FUNCTION turns into callables.  The streams are those *)
(* CPython 3.10 compiles the quoted sources to.                            *)

\* co_flags of a plain function: CO_OPTIMIZED | CO_NEWLOCALS | CO_NOFREE
PlainFlags == 1 + 2 + 64

N(i) == IntV(i)
S(nm) == StrV(nm)

\* def f(...): ...  with the code unit "f"
DefF(mk) == <<I("LOAD_CONST", CodeV("f")), I("LOAD_CONST", S("f")),
              I("MAKE_FUNCTION", N(mk)), I("STORE_NAME", S("f"))>>

CondJumps == {"POP_JUMP_IF_FALSE", "POP_JUMP_IF_TRUE", "JUMP_IF_FALSE_OR_POP", "JUMP_IF_TRUE_OR_POP"}

Ints == {N(i) : i \in 0..MaxConst}

\* def f(x):
\*     if x: return 1          (or: if not x, x and .., x or ..)
\*     return 2
\* r = f(c)
Branch(cj, c) ==
    [id \in {"main", "f"} |->
       IF id = "main"
       THEN CodeUnit(DefF(0) \o <<I("LOAD_NAME", S("f")), I("LOAD_CONST", c), I("CALL_FUNCTION", N(1)),
                                  I("STORE_NAME", S("r")), I("LOAD_CONST", NoneV), I("RETURN_VALUE", NoneV)>>,
                     <<>>, 0, 0, 0, 64)
       ELSE CodeUnit(<<I("LOAD_FAST", S("x")), I(cj, N(8)), I("LOAD_CONST", N(1)), I("RETURN_VALUE", NoneV),
                       I("LOAD_CONST", N(2)), I("RETURN_VALUE", NoneV)>>,
                     <<"x">>, 1, 0, 0, PlainFlags)]

\* if c: a = 1
\* else: a = 2
\* return a
IfElse(c) ==
    [id \in {"main"} |->
       CodeUnit(<<I("LOAD_CONST", c), I("POP_JUMP_IF_FALSE", N(10)), I("LOAD_CONST", N(1)),
                  I("STORE_NAME", S("a")), I("JUMP_FORWARD", N(14)), I("LOAD_CONST", N(2)),
                  I("STORE_NAME", S("a")), I("LOAD_NAME", S("a")), I("RETURN_VALUE", NoneV)>>,
                <<>>, 0, 0, 0, 64)]

\* the sequences a for-loop runs over: 10, 20, ... up to MaxIterLen of them
LoopElems == {N(10 * i) : i \in 1..MaxConst}
LoopSeqs == UNION {[1..n -> LoopElems] : n \in 0..MaxIterLen}

\* for v in seq: pass
Loop(seq) ==
    [id \in {"main"} |->
       CodeUnit(<<I("LOAD_CONST", TupleV(seq)), I("GET_ITER", NoneV), I("FOR_ITER", N(10)),
                  I("STORE_NAME", S("v")), I("JUMP_ABSOLUTE", N(4)), I("LOAD_CONST", NoneV),
                  I("RETURN_VALUE", NoneV)>>,
                <<>>, 0, 0, 0, 64)]

MapKeys == Ints \cup {BoolV(TRUE)}

\* {k1: 1, k2: 2} (the first n pairs), then a second dict {k3: 3} merged
\* into it by DICT_MERGE or DICT_UPDATE
Maps(n, k1, k2, k3, op) ==
    [id \in {"main"} |->
       CodeUnit(<<I("LOAD_CONST", k1), I("LOAD_CONST", N(1)), I("LOAD_CONST", k2), I("LOAD_CONST", N(2)),
                  I("BUILD_MAP", N(n)), I("LOAD_CONST", k3), I("LOAD_CONST", N(3)), I("BUILD_MAP", N(1)),
                  I(op, N(1)), I("RETURN_VALUE", NoneV)>>,
                <<>>, 0, 0, 0, 64)]

\* the test of an except clause, tos1 and tos being a and b; when guarded the
\* stream opens the try block first, as compiled code does
\*   [try:] if a is not b: return 2
\*   return 1
ExcMatch(a, b, guarded) ==
    [id \in {"main"} |->
       CodeUnit((IF guarded THEN <<I("SETUP_FINALLY", N(12))>> ELSE <<>>)
                \o <<I("LOAD_CONST", a), I("LOAD_CONST", b),
                     I("JUMP_IF_NOT_EXC_MATCH", N(IF guarded THEN 12 ELSE 10)),
                     I("LOAD_CONST", N(1)), I("RETURN_VALUE", NoneV),
                     I("LOAD_CONST", N(2)), I("RETURN_VALUE", NoneV)>>,
                <<>>, 0, 0, 0, 64)]

\* the parameter lists of the called function:
\*   "abcde": def f(a, b=1, *c, d, **e)     "ab": def f(a, b)
\*   "none":  def f()                        "a_d": def f(a, *, d)
\*   "pa_b":  def f(a, /, b)                 "pa_e": def f(a, /, **e)
Signatures == {"abcde", "ab", "none", "a_d", "pa_b", "pa_e"}

SigCode(sig, body) ==
    CASE sig = "abcde" -> CodeUnit(body, <<"a", "b", "d", "c", "e">>, 2, 0, 1,
                                   PlainFlags + CO_VARARGS + CO_VARKEYWORDS)
      [] sig = "ab" -> CodeUnit(body, <<"a", "b">>, 2, 0, 0, PlainFlags)
      [] sig = "none" -> CodeUnit(body, <<>>, 0, 0, 0, PlainFlags)
      [] sig = "a_d" -> CodeUnit(body, <<"a", "d">>, 1, 0, 1, PlainFlags)
      [] sig = "pa_b" -> CodeUnit(body, <<"a", "b">>, 2, 1, 0, PlainFlags)
      [] sig = "pa_e" -> CodeUnit(body, <<"a", "e">>, 1, 1, 0, PlainFlags + CO_VARKEYWORDS)

\* the keyword names a call site passes
KwNames == {<<>>, <<S("a")>>, <<S("d")>>, <<S("z")>>, <<S("d"), S("z")>>}

\* def f(<sig>): return None
\* r = f(1, .., npos, d=npos+1, z=npos+2)   with the keywords of kws
CallSite(sig, npos, kws) ==
    [id \in {"main", "f"} |->
       IF id = "main"
       THEN CodeUnit((IF sig = "abcde" THEN <<I("LOAD_CONST", TupleV(<<N(1)>>))>> \o DefF(1) ELSE DefF(0))
                     \o <<I("LOAD_NAME", S("f"))>>
                     \o [i \in 1..npos |-> I("LOAD_CONST", N(i))]
                     \o [i \in 1..Len(kws) |-> I("LOAD_CONST", N(npos + i))]
                     \o (IF kws = <<>> THEN <<I("CALL_FUNCTION", N(npos))>>
                         ELSE <<I("LOAD_CONST", TupleV(kws)), I("CALL_FUNCTION_KW", N(npos + Len(kws)))>>)
                     \o <<I("STORE_NAME", S("r")), I("LOAD_CONST", NoneV), I("RETURN_VALUE", NoneV)>>,
                     <<>>, 0, 0, 0, 64)
       ELSE SigCode(sig, <<I("LOAD_CONST", NoneV), I("RETURN_VALUE", NoneV)>>)]

\* the name looked up: one the builtins bind and one they do not
LookupNames == {"len", "x"}

\* [nm = 1]                          when g
\* def f(p):                         p is nm when l
\*     [del nm] [global-del nm]      when dl, dg
\*     return nm                     (loaded by ld: by name or as a local)
\* return f(2)
Names(nm, g, l, dl, dg, ld) ==
    [id \in {"main", "f"} |->
       IF id = "main"
       THEN CodeUnit((IF g THEN <<I("LOAD_CONST", N(1)), I("STORE_NAME", S(nm))>> ELSE <<>>)
                     \o DefF(0)
                     \o <<I("LOAD_NAME", S("f")), I("LOAD_CONST", N(2)), I("CALL_FUNCTION", N(1)),
                          I("RETURN_VALUE", NoneV)>>,
                     <<>>, 0, 0, 0, 64)
       ELSE CodeUnit((IF dl THEN <<I("DELETE_FAST", S(nm))>> ELSE <<>>)
                     \o (IF dg THEN <<I("DELETE_GLOBAL", S(nm))>> ELSE <<>>)
                     \o <<I(ld, S(nm)), I("RETURN_VALUE", NoneV)>>,
                     <<IF l THEN nm ELSE "p">>, 1, 0, 0, PlainFlags)]

\* what main does between its two calls of f
Between == {<<>>,
            <<I("DELETE_NAME", S("x"))>>,
            <<I("LOAD_CONST", N(2)), I("STORE_NAME", S("x"))>>,
            <<I("LOAD_CONST", N(2)), I("STORE_NAME", S("y"))>>,
            <<I("LOAD_CONST", N(2)), I("STORE_GLOBAL", S("x"))>>}

\* x = c
\* def f(a):
\*     global g
\*     g = a; t = x           (t stored with st: as a local or by name)
\*     return (t, g)
\* f(1); <mid>; return f(2)
Scopes(c, mid, st) ==
    [id \in {"main", "f"} |->
       IF id = "main"
       THEN CodeUnit(<<I("LOAD_CONST", c), I("STORE_NAME", S("x"))>> \o DefF(0)
                     \o <<I("LOAD_NAME", S("f")), I("LOAD_CONST", N(1)), I("CALL_FUNCTION", N(1)),
                          I("POP_TOP", NoneV)>>
                     \o mid
                     \o <<I("LOAD_NAME", S("f")), I("LOAD_CONST", N(2)), I("CALL_FUNCTION", N(1)),
                          I("RETURN_VALUE", NoneV)>>,
                     <<>>, 0, 0, 0, 64)
       ELSE CodeUnit(<<I("LOAD_FAST", S("a")), I("STORE_GLOBAL", S("g")), I("LOAD_NAME", S("x")),
                       I(st, S("t")), I("LOAD_FAST", S("t")), I("LOAD_GLOBAL", S("g")),
                       I("BUILD_TUPLE", N(2)), I("RETURN_VALUE", NoneV)>>,
                     <<"a", "t">>, 1, 0, 0, PlainFlags)]

\* the opcodes that reorder or copy the top of the stack, with their operands
StackOps == {I("ROT_TWO", NoneV), I("ROT_THREE", NoneV), I("ROT_FOUR", NoneV),
             I("DUP_TOP", NoneV), I("DUP_TOP_TWO", NoneV)}
            \cup {I("ROT_N", N(n)) : n \in 1..MaxDepth}

\* k values 1, .., k are pushed, ins runs on them, and what the stack then
\* holds below its top is dropped:  return <top>
Shuffle(k, ins) ==
    [id \in {"main"} |->
       CodeUnit([i \in 1..k |-> I("LOAD_CONST", N(i))] \o <<ins, I("RETURN_VALUE", NoneV)>>,
                <<>>, 0, 0, 0, 64)]

\* the constants the operators are applied to
Operands == Ints \cup {BoolV(TRUE), NoneV}
\* no operator reads more than two values: the top two operands range over
\* Operands, and the values pushed below them are 0
OperandSeqs ==
    {[i \in 1..below |-> N(0)] \o tops : below \in 0..(MaxOperands - 2),
                                         tops \in UNION {[1..n -> Operands] : n \in 0..2}}
TupleConsts == {TupleV(seq) : seq \in LoopSeqs}

\* the operator and building instructions, with their operands
OperatorIns ==
    {I(op, NoneV) : op \in {"UNARY_INVERT", "UNARY_NEGATIVE", "UNARY_NOT", "UNARY_POSITIVE",
                            "BINARY_ADD", "BINARY_FLOOR_DIVIDE", "BINARY_MODULO", "BINARY_MULTIPLY",
                            "BINARY_SUBSCR", "BINARY_SUBTRACT",
                            "INPLACE_ADD", "INPLACE_MULTIPLY", "INPLACE_SUBTRACT"}}
    \cup {I("COMPARE_OP", S(op)) : op \in {"<", "<=", "==", "!=", ">", ">="}}
    \cup {I(op, N(invert)) : op \in {"IS_OP", "CONTAINS_OP"}, invert \in 0..1}
    \cup {I(op, N(n)) : op \in {"BUILD_TUPLE", "BUILD_LIST", "BUILD_SET"}, n \in 0..2}
    \cup {I("BUILD_MAP", N(n)) : n \in 0..1}

\* the constants consts are pushed and ins runs on them:  return <ins consts>
Operate(consts, ins) ==
    [id \in {"main"} |->
       CodeUnit([i \in 1..Len(consts) |-> I("LOAD_CONST", consts[i])] \o <<ins, I("RETURN_VALUE", NoneV)>>,
                <<>>, 0, 0, 0, 64)]

\* the keys of {"a": .., "b": ..}, which the compiler makes one constant
ConstKeys(n) == TupleV(SubSeq(<<S("a"), S("b")>>, 1, n))

\* return recv.nm(*args)   (below it the stack holds the constant 0), where
\* the instruction load pushes recv: a constant, or the list []
Method(load, nm, args) ==
    [id \in {"main"} |->
       CodeUnit(<<I("LOAD_CONST", N(0)), load, I("LOAD_METHOD", S(nm))>>
                \o [i \in 1..Len(args) |-> I("LOAD_CONST", args[i])]
                \o <<I("CALL_METHOD", N(Len(args))), I("RETURN_VALUE", NoneV)>>,
                <<>>, 0, 0, 0, 64)]

\* how the module binds x, unbinds it again and reads it
ModuleDeletes == {<<>>, <<I("DELETE_NAME", S("x"))>>, <<I("DELETE_GLOBAL", S("x"))>>}
ModuleLoads == {<<I("LOAD_NAME", S("x"))>>, <<I("LOAD_GLOBAL", S("x"))>>, <<I("LOAD_FAST", S("x"))>>,
                <<I("LOAD_NAME", S("f")), I("CALL_FUNCTION", N(0))>>}

\* x = c              (stored by name or as a global)
\* [del x]
\* def f(): return x  (loaded as a global)
\* return x           (loaded by name, as a global or as a local), or: return f()
Module(c, st, del, ld) ==
    [id \in {"main", "f"} |->
       IF id = "main"
       THEN CodeUnit(<<I("LOAD_CONST", c), I(st, S("x"))>> \o del \o DefF(0) \o ld
                     \o <<I("RETURN_VALUE", NoneV)>>,
                     <<>>, 0, 0, 0, 64)
       ELSE CodeUnit(<<I("LOAD_GLOBAL", S("x")), I("RETURN_VALUE", NoneV)>>,
                     <<>>, 0, 0, 0, PlainFlags)]

\* def f(n):
\*     if n: return f(n - 1)
\*     return nm                 (a global: a builtin, or bound nowhere)
\* return f(c)
Recurse(c, nm) ==
    [id \in {"main", "f"} |->
       IF id = "main"
       THEN CodeUnit(DefF(0) \o <<I("LOAD_NAME", S("f")), I("LOAD_CONST", c), I("CALL_FUNCTION", N(1)),
                                  I("RETURN_VALUE", NoneV)>>,
                     <<>>, 0, 0, 0, 64)
       ELSE CodeUnit(<<I("LOAD_FAST", S("n")), I("POP_JUMP_IF_FALSE", N(16)), I("LOAD_GLOBAL", S("f")),
                       I("LOAD_FAST", S("n")), I("LOAD_CONST", N(1)), I("BINARY_SUBTRACT", NoneV),
                       I("CALL_FUNCTION", N(1)), I("RETURN_VALUE", NoneV),
                       I("LOAD_GLOBAL", S(nm)), I("RETURN_VALUE", NoneV)>>,
                     <<"n">>, 1, 0, 0, PlainFlags)]

\* return (7, 1 if <c tested by cj> else 2)[1], the tested value c pushed
\* above the constant 7
Select(cj, c) ==
    [id \in {"main"} |->
       CodeUnit(<<I("LOAD_CONST", N(7)), I("LOAD_CONST", c), I(cj, N(10)), I("LOAD_CONST", N(1)),
                  I("RETURN_VALUE", NoneV), I("LOAD_CONST", N(2)), I("RETURN_VALUE", NoneV)>>,
                <<>>, 0, 0, 0, 64)]

Programs ==
    {Branch(cj, c) : cj \in CondJumps, c \in Ints \cup {NoneV}}
    \cup {IfElse(c) : c \in Ints}
    \cup {Loop(seq) : seq \in LoopSeqs}
    \cup {Maps(n, k1, k2, k3, op) : n \in 0..2, k1 \in MapKeys, k2 \in MapKeys, k3 \in MapKeys,
                                    op \in {"DICT_MERGE", "DICT_UPDATE"}}
    \cup {CallSite(sig, npos, kws) : sig \in Signatures, npos \in 0..MaxPosArgs, kws \in KwNames}
    \cup {Names(nm, g, l, dl, dg, ld) : nm \in LookupNames, g \in BOOLEAN, l \in BOOLEAN,
                                        dl \in BOOLEAN, dg \in BOOLEAN, ld \in {"LOAD_NAME", "LOAD_FAST"}}
    \cup {Scopes(c, mid, st) : c \in Ints, mid \in Between, st \in {"STORE_FAST", "STORE_NAME"}}
    \cup {ExcMatch(a, b, guarded) : a \in Ints, b \in Ints, guarded \in BOOLEAN}
    \cup {Shuffle(k, ins) : k \in 0..MaxDepth, ins \in StackOps}
    \cup {Recurse(c, nm) : c \in Ints, nm \in LookupNames}
    \cup {Module(c, st, del, ld) : c \in Ints, st \in {"STORE_NAME", "STORE_GLOBAL"}, del \in ModuleDeletes, ld \in ModuleLoads}
    \cup {Operate(consts, ins) : consts \in OperandSeqs, ins \in OperatorIns}
    \cup {Operate(<<N(0), t, i>>, I("BINARY_SUBSCR", NoneV)) :
             t \in TupleConsts, i \in Ints \cup {N(0 - 1), NoneV}}
    \cup {Operate(<<N(0), x, t>>, I("CONTAINS_OP", N(invert))) :
             x \in LoopElems, t \in TupleConsts, invert \in 0..1}
    \cup {Operate(consts \o <<ConstKeys(n)>>, I("BUILD_CONST_KEY_MAP", N(n))) :
             consts \in OperandSeqs, n \in 0..2}
    \cup {Method(I("LOAD_CONST", recv), nm, args) : recv \in TupleConsts \cup {N(1), NoneV}, nm \in MethodNames,
                                    args \in UNION {[1..n -> LoopElems] : n \in 0..2}}
    \cup {Method(I("BUILD_LIST", N(0)), nm, args) : nm \in {"__hash__", "missing"},
                                                    args \in UNION {[1..n -> LoopElems] : n \in 0..2}}
    \cup {Select(cj, c) : cj \in CondJumps, c \in Operands \cup TupleConsts \cup {S(""), S("a")}}

----------------------------------------------------------------------------
(* VirtualMachine.run: the globals dictionary is new and empty, and the    *)
(* top-level frame gets it as its globals and as its locals.               *)

\* a driver that hands the top-level frame a dictionary of its own as locals
Init_separate_locals ==
    /\ code \in Programs
    /\ scopes = <<EmptyMap, EmptyMap>>
    /\ frames = <<Frame("main", GlobalsId + 1, <<>>, EmptyMap)>>
    /\ heap = <<>>
    /\ state = "running"
    /\ result = NoneV
    /\ last = [op |-> "", arg |-> NoneV, fr |-> Frame("main", GlobalsId + 1, <<>>, EmptyMap),
               depth |-> 0, note |-> "init"]

Init ==
    /\ code \in Programs
    /\ scopes = <<EmptyMap>>
    /\ frames = <<Frame("main", GlobalsId, <<>>, EmptyMap)>>
    /\ heap = <<>>
    /\ state = "running"
    /\ result = NoneV
    /\ last = [op |-> "", arg |-> NoneV, fr |-> Frame("main", GlobalsId, <<>>, EmptyMap),
               depth |-> 0, note |-> "init"]

Next ==
    \/ load_name_op
    \/ delete_name_op
    \/ store_name_op
    \/ load_fast_op
    \/ store_fast_op
    \/ delete_fast_op
    \/ load_global_op
    \/ delete_global_op
    \/ store_global_op
    \/ load_const_op
    \/ pop_top_op
    \/ rot_n_op
    \/ rot_two_op
    \/ rot_three_op
    \/ rot_four_op
    \/ dup_top_op
    \/ dup_top_two_op
    \/ make_function_op
    \/ call_function_op
    \/ call_function_kw_op
    \/ return_value_op
    \/ run_no_handler
    \/ run_stop
    \/ jump_absolute_op
    \/ jump_forward_op
    \/ jump_if_false_or_pop_op
    \/ jump_if_true_or_pop_op
    \/ jump_if_not_exc_match_op
    \/ pop_jump_if_false_op
    \/ pop_jump_if_true_op
    \/ get_iter_op
    \/ for_iter_op
    \/ build_map_op
    \/ build_tuple_op
    \/ build_list_op
    \/ build_set_op
    \/ build_const_key_map_op
    \/ load_method_op
    \/ call_method_op
    \/ compare_op_op
    \/ is_op_op
    \/ contains_op_op
    \/ unary_invert_op
    \/ unary_negative_op
    \/ unary_not_op
    \/ unary_positive_op
    \/ binary_add_op
    \/ binary_floor_divide_op
    \/ binary_modulo_op
    \/ binary_multiply_op
    \/ binary_subscr_op
    \/ binary_subtract_op
    \/ inplace_add_op
    \/ inplace_multiply_op
    \/ inplace_subtract_op
    \/ dict_update_op
    \/ dict_merge_op

Spec == Init /\ [][Next]_vars

----------------------------------------------------------------------------
(* Frame.popn and Frame.push on their own: a frame whose data stack holds   *)
(* any values is handed popn(n) for any n, and then push of the returned  *)
(* values.  In last, arg is the pair (n, the returned list) and fr the     *)
(* frame before the popn.                                                  *)

StackSeqs == UNION {[1..n -> Ints] : n \in 0..MaxDepth}

InitPopn ==
    /\ code = Operate(<<>>, I("RETURN_VALUE", NoneV))
    /\ scopes = <<EmptyMap>>
    /\ \E s \in StackSeqs : frames = <<[Frame("main", GlobalsId, <<>>, EmptyMap) EXCEPT !.data_stack = s]>>
    /\ heap = <<>>
    /\ state = "running"
    /\ result = NoneV
    /\ last = [op |-> "", arg |-> NoneV, fr |-> Frame("main", GlobalsId, <<>>, EmptyMap),
               depth |-> 0, note |-> "init"]

popn_call ==
    /\ last.op # "popn"
    /\ \E n \in (0 - 1)..(MaxDepth + 1) :
          /\ frames' = <<WithStack(popn_rest(Stack, n))>>
          /\ last' = [op |-> "popn", arg |-> TupleV(<<N(n), TupleV(popn(Stack, n))>>), fr |-> Cur,
                      depth |-> 1, note |-> ""]
    /\ UNCHANGED <<code, scopes, heap, state, result>>

push_call ==
    /\ last.op = "popn"
    /\ frames' = <<WithStack(push(Stack, last.arg[2][2][2]))>>
    /\ last' = [last EXCEPT !.op = "push"]
    /\ UNCHANGED <<code, scopes, heap, state, result>>

NextPopn ==
    \/ popn_call
    \/ push_call

SpecPopn == InitPopn /\ [][NextPopn]_vars

----------------------------------------------------------------------------
(* Properties *)

\* the frames built by a call: every frame above the top-level one
Callees == 2..Len(frames)

HasFlag(c, flag) == (c.co_flags \div flag) % 2 = 1

\* the names of a code unit that are parameters: the positional ones, the
\* keyword-only ones and the catch-all names
Declared(c) ==
    {c.co_varnames[i] : i \in 1..(c.co_argcount + c.co_kwonlyargcount
                                  + (IF HasFlag(c, CO_VARARGS) THEN 1 ELSE 0)
                                  + (IF HasFlag(c, CO_VARKEYWORDS) THEN 1 ELSE 0))}

KwOnly(c) == {c.co_varnames[i] : i \in (c.co_argcount + 1)..(c.co_argcount + c.co_kwonlyargcount)}

\* C1: once a return handler has executed in a frame, no further instruction
\* of that frame executes, and Frame.run yields the value that handler popped.
C1_ReturnHalts ==
    /\ \A i \in 1..Len(frames) : ~frames[i].ran_after
    /\ (last.op = "run" /\ last.note = "return" /\ last.fr.ret_done) => last.arg = last.fr.ret_first

\* the step just taken is the call opcode of main and it started a frame whose
\* locals bind a, b, c, d as given and e to a dict with the items e
StartsWith(a, b, c, d, e) ==
    /\ last.note = "call"
    /\ Len(frames) = 2
    /\ LET loc == scopes[Cur.locals]
       IN /\ {"a", "b", "c", "d", "e"} \subseteq DOMAIN loc
          /\ loc["a"] = a /\ loc["b"] = b /\ loc["c"] = c /\ loc["d"] = d
          /\ is_dict(loc["e"])
          /\ heap[loc["e"][2]][2] = e

\* C2: for def f(a, b=1, *c, d, **e), the call f(1, d=2) starts the frame with
\* a=1, b=1, c=(), d=2, e={} and f(1, 2, 3, d=4, z=5) starts it with
\* a=1, b=2, c=(3,), d=4, e={z: 5}.
C2_FullBinding ==
    /\ (code = CallSite("abcde", 1, <<S("d")>>) /\ last.op = "CALL_FUNCTION_KW")
          => StartsWith(N(1), N(1), TupleV(<<>>), N(2), <<>>)
    /\ (code = CallSite("abcde", 3, <<S("d"), S("z")>>) /\ last.op = "CALL_FUNCTION_KW")
          => StartsWith(N(1), N(2), TupleV(<<N(3)>>), N(4), <<<<S("z"), N(5)>>>>)

\* C3: a call that passes a keyword which is no declared parameter of a code
\* unit without the catch-all-keyword flag raises, so no frame is built for it
\* and no instruction of the callee runs.
C3_TooManyKeyword ==
    \A i \in Callees :
       LET c == code[frames[i].code]
       IN ~HasFlag(c, CO_VARKEYWORDS) => DOMAIN frames[i].kwargs \subseteq Declared(c)

\* C4: a call that passes more positional arguments than the positional
\* parameter count of a code unit without the catch-all-positional flag is
\* rejected: no frame is built that dropped the extra arguments.
C4_TooManyPositional ==
    \A i \in Callees :
       LET c == code[frames[i].code]
       IN ~HasFlag(c, CO_VARARGS) => Len(frames[i].args) <= c.co_argcount

\* C5: a keyword-only parameter is bound from the call's keyword arguments
\* (no modelled function declares a keyword default); a call that omits it
\* raises, so no frame is built for it.
C5_KeywordOnly ==
    \A i \in Callees :
       \A nm \in KwOnly(code[frames[i].code]) :
          /\ nm \in DOMAIN frames[i].kwargs
          /\ frames[i].f_lasti = 0 =>
                /\ nm \in DOMAIN scopes[frames[i].locals]
                /\ scopes[frames[i].locals][nm] = frames[i].kwargs[nm]

\* the step keeps the running frame running and leaves x on top of its
\* stack, above what the stack held before
Pushed(x) ==
    /\ state' = "running"
    /\ Len(frames') = Len(frames)
    /\ Cur'.data_stack = Append(Stack, x)

\* C6: LOAD_NAME pushes the local binding of its name if there is one, else
\* the global binding, else the builtin binding; a name bound nowhere raises
\* NameError and nothing is pushed.
C6_LoadNameOrder ==
    [][Fetch("LOAD_NAME") =>
         LET nm == CurInstr.arg[2]
             loc == scopes[Cur.locals]
             glob == scopes[GlobalsId]
         IN /\ nm \in DOMAIN loc => Pushed(loc[nm])
            /\ (nm \notin DOMAIN loc /\ nm \in DOMAIN glob) => Pushed(glob[nm])
            /\ (nm \notin DOMAIN loc /\ nm \notin DOMAIN glob /\ nm \in DOMAIN Builtins)
                  => Pushed(Builtins[nm])
            /\ (nm \notin DOMAIN loc /\ nm \notin DOMAIN glob /\ nm \notin DOMAIN Builtins)
                  => /\ state' = "raised"
                     /\ result' = ErrV("NameError")
                     /\ Cur'.data_stack = Stack]_vars

\* a callee has just run LOAD_NAME on a name bound to three different values
\* in its locals, the globals and the builtins, and the local one is on top
C6_Witness ==
    /\ last.op = "LOAD_NAME" /\ last.note = "" /\ state = "running"
    /\ last.fr.locals # GlobalsId
    /\ LET nm == last.arg[2]
       IN /\ nm \in DOMAIN scopes[last.fr.locals]
          /\ nm \in DOMAIN scopes[GlobalsId]
          /\ nm \in DOMAIN Builtins
          /\ scopes[last.fr.locals][nm] # scopes[GlobalsId][nm]
          /\ scopes[GlobalsId][nm] # Builtins[nm]
          /\ Cur.data_stack = Append(last.fr.data_stack, scopes[last.fr.locals][nm])

\* the running frame is about to execute a jump that will be taken
JumpTaken ==
    \/ Fetch("JUMP_ABSOLUTE")
    \/ Fetch("POP_JUMP_IF_FALSE") /\ Len(Stack) > 0 /\ ~Truthy(top(Stack))
    \/ Fetch("POP_JUMP_IF_TRUE") /\ Len(Stack) > 0 /\ Truthy(top(Stack))
    \/ Fetch("JUMP_IF_FALSE_OR_POP") /\ Len(Stack) > 0 /\ ~Truthy(top(Stack))
    \/ Fetch("JUMP_IF_TRUE_OR_POP") /\ Len(Stack) > 0 /\ Truthy(top(Stack))
    \/ Fetch("JUMP_IF_NOT_EXC_MATCH") /\ Len(Stack) >= 2 /\ Stack[Len(Stack) - 1] # top(Stack)

\* C7: after an absolute jump, or a conditional jump that is taken, and the
\* loop's advance, f_lasti is the target T, and the instruction at T is the
\* next one the frame fetches.
C7_AbsoluteJumpLandsOnTarget ==
    [][JumpTaken =>
         /\ state' = "running"
         /\ Len(frames') = Len(frames)
         /\ Cur'.f_lasti = CurInstr.arg[2]
         /\ Cur'.f_lasti \in DOMAIN instructions_offset(CurCode)]_vars

\* a conditional jump was taken to an offset that is not the next one, and
\* the frame stands at its target
C7_Witness ==
    /\ last.op \in CondJumps /\ last.note = "jump" /\ state = "running"
    /\ last.arg[2] # last.fr.f_lasti + UnitWidth
    /\ Len(frames) = last.depth
    /\ Cur.f_lasti = last.arg[2]

\* C8: FOR_ITER with an iterator on top: while the iterator yields, the
\* element at its position is pushed above it, the iterator moves on by one
\* and the frame falls through; once it is exhausted nothing is pushed, the
\* iterator is popped and the frame stands at the loop-exit target.
C8_ForIter ==
    [][(Fetch("FOR_ITER") /\ Len(Stack) > 0 /\ top(Stack)[1] = "ref" /\ heap[top(Stack)[2]][1] = "iter") =>
         LET it == top(Stack)[2]
             items == heap[it][2][1]
             pos == heap[it][2][2]
         IN /\ state' = "running"
            /\ Len(frames') = Len(frames)
            /\ IF pos < Len(items)
               THEN /\ Cur'.data_stack = Stack \o <<items[pos + 1]>>
                    /\ heap'[it] = IterObj(items, pos + 1)
                    /\ Cur'.f_lasti = Cur.f_lasti + UnitWidth
               ELSE /\ Cur'.data_stack = SubSeq(Stack, 1, Len(Stack) - 1)
                    /\ Cur'.f_lasti = CurInstr.arg[2]]_vars

\* the third FOR_ITER over (10, 20): the iterator, which has yielded 10 and 20,
\* was popped and the frame stands at the exit target with nothing pushed
C8_Witness ==
    /\ last.op = "FOR_ITER" /\ last.note = "stop" /\ state = "running"
    /\ LET it == top(last.fr.data_stack)
       IN /\ it[1] = "ref"
          /\ heap[it[2]] = IterObj(<<N(10), N(20)>>, 2)
    /\ Cur.data_stack = pop(last.fr.data_stack)
    /\ Cur.f_lasti = last.arg[2]
    /\ scopes[GlobalsId]["v"] = N(20)

\* DICT_MERGE finds a dict on top and a dict in the slot it addresses
MergesDicts ==
    /\ Fetch("DICT_MERGE")
    /\ Len(Stack) >= 2
    /\ is_dict(top(Stack))
    /\ stack_slot(pop(Stack), CurInstr.arg[2]) # 0
    /\ is_dict(pop(Stack)[stack_slot(pop(Stack), CurInstr.arg[2])])

\* C9: DICT_MERGE raises when the incoming dict shares a key with the target,
\* and only then; otherwise it adds the incoming entries to the target in
\* place and raises nothing.
C9_DictMerge ==
    [][MergesDicts =>
         LET incoming == heap[top(Stack)[2]][2]
             target == pop(Stack)[stack_slot(pop(Stack), CurInstr.arg[2])][2]
         IN IF \E i \in 1..Len(incoming) : dict_has(heap[target][2], incoming[i][1])
            THEN state' = "raised"
            ELSE /\ state' = "running"
                 /\ Cur'.data_stack = pop(Stack)
                 /\ heap'[target] = DictObj(heap[target][2] \o incoming)]_vars

\* BUILD_MAP finds its 2n values on the stack, with hashable keys
BuildsMap ==
    /\ Fetch("BUILD_MAP")
    /\ Len(Stack) >= 2 * CurInstr.arg[2]
    /\ \A i \in 1..CurInstr.arg[2] : hashable(Stack[Len(Stack) - 2 * CurInstr.arg[2] + 2 * i - 1])

\* C10: BUILD_MAP n pops 2n values and pushes one new dict; its keys are the
\* keys pushed, each once, and each key has the value of the last pair pushed
\* with an equal key.
C10_BuildMap ==
    [][BuildsMap =>
         LET n == CurInstr.arg[2]
             base == Len(Stack) - 2 * n
             key(i) == Stack[base + 2 * i - 1]
             val(i) == Stack[base + 2 * i]
             lastOf(i) == CHOOSE l \in 1..n : /\ key_eq(key(l), key(i))
                                              /\ \A m \in (l + 1)..n : ~key_eq(key(m), key(i))
             new == Cur'.data_stack[base + 1]
         IN /\ state' = "running"
            /\ Len(Cur'.data_stack) = base + 1
            /\ SubSeq(Cur'.data_stack, 1, base) = SubSeq(Stack, 1, base)
            /\ new[1] = "ref" /\ new[2] \notin 1..Len(heap)
            /\ heap'[new[2]][1] = "dict"
            /\ LET items == heap'[new[2]][2]
               IN /\ \A i \in 1..n : \E j \in 1..Len(items) :
                        key_eq(items[j][1], key(i)) /\ items[j][2] = val(lastOf(i))
                  /\ \A j \in 1..Len(items) : \E i \in 1..n : key_eq(items[j][1], key(i))
                  /\ \A j1, j2 \in 1..Len(items) : key_eq(items[j1][1], items[j2][1]) => j1 = j2]_vars

\* BUILD_MAP 2 has run on [k1, v1, k2, v2] with k1 == k2 and v1 # v2, and the
\* dict on top holds the single entry k2 -> v2
C10_Witness ==
    /\ last.op = "BUILD_MAP" /\ last.arg[2] = 2 /\ state = "running"
    /\ LET s == last.fr.data_stack
       IN /\ Len(s) >= 4
          /\ key_eq(s[Len(s) - 3], s[Len(s) - 1])
          /\ s[Len(s) - 2] # s[Len(s)]
          /\ Len(Cur.data_stack) = Len(s) - 3
          /\ is_dict(top(Cur.data_stack))
          /\ Len(heap[top(Cur.data_stack)[2]][2]) = 1
          /\ key_eq(heap[top(Cur.data_stack)[2]][2][1][1], s[Len(s) - 1])
          /\ heap[top(Cur.data_stack)[2]][2][1][2] = s[Len(s)]


\* the count of the rotation the running frame is about to execute
RotCount ==
    CASE CurInstr.op = "ROT_TWO" -> 2
      [] CurInstr.op = "ROT_THREE" -> 3
      [] CurInstr.op = "ROT_FOUR" -> 4
      [] CurInstr.op = "ROT_N" -> CurInstr.arg[2]

\* a rotation by n >= 1 is about to run on a stack of depth >= n
Rotates ==
    /\ \E op \in {"ROT_TWO", "ROT_THREE", "ROT_FOUR", "ROT_N"} : Fetch(op)
    /\ RotCount >= 1
    /\ Len(Stack) >= RotCount

\* C11: a rotation by n on a stack of depth >= n moves the top value to depth
\* n-1, moves each of the other n-1 values one position toward the top in
\* their order, and leaves the depth and the values below the top n alone;
\* ROT_THREE turns [..., x, y, z] into [..., z, x, y].
C11_Rotate ==
    [][Rotates =>
         LET n == RotCount
             d == Len(Stack)
         IN /\ state' = "running"
            /\ Len(frames') = Len(frames)
            /\ Len(Cur'.data_stack) = d
            /\ Cur'.data_stack[d - n + 1] = Stack[d]
            /\ \A i \in (d - n + 2)..d : Cur'.data_stack[i] = Stack[i - 1]
            /\ \A i \in 1..(d - n) : Cur'.data_stack[i] = Stack[i]
            /\ (CurInstr.op = "ROT_THREE") =>
                  Cur'.data_stack = SubSeq(Stack, 1, d - 3) \o <<Stack[d], Stack[d - 2], Stack[d - 1]>>]_vars

\* ROT_THREE has run on [w, x, y, z], four different values, and left
\* [w, z, x, y]
C11_Witness ==
    /\ last.op = "ROT_THREE" /\ state = "running"
    /\ Len(last.fr.data_stack) = 4
    /\ Cardinality({last.fr.data_stack[i] : i \in 1..4}) = 4
    /\ LET s == last.fr.data_stack
       IN Cur.data_stack = <<s[1], s[4], s[2], s[3]>>


UnaryOpcodes == {"UNARY_INVERT", "UNARY_NEGATIVE", "UNARY_NOT", "UNARY_POSITIVE"}
BinaryOpcodes == {"BINARY_ADD", "BINARY_FLOOR_DIVIDE", "BINARY_MODULO", "BINARY_MULTIPLY",
                  "BINARY_SUBSCR", "BINARY_SUBTRACT",
                  "INPLACE_ADD", "INPLACE_MULTIPLY", "INPLACE_SUBTRACT",
                  "COMPARE_OP", "IS_OP", "CONTAINS_OP"}
SequenceOpcodes == {"BUILD_TUPLE", "BUILD_LIST", "BUILD_SET"}

\* the running frame is about to execute an opcode with a documented pop and
\* push count
Documented ==
    /\ state = "running"
    /\ Cur.f_lasti \in DOMAIN instructions_offset(CurCode)
    /\ CurInstr.op \in UnaryOpcodes \cup BinaryOpcodes \cup SequenceOpcodes
                       \cup {"BUILD_MAP", "BUILD_CONST_KEY_MAP", "DUP_TOP", "DUP_TOP_TWO",
                             "LOAD_METHOD", "CALL_METHOD"}

\* the documented pop count p of that opcode
PopCount ==
    CASE CurInstr.op \in UnaryOpcodes \cup {"LOAD_METHOD"} -> 1
      [] CurInstr.op \in BinaryOpcodes -> 2
      [] CurInstr.op \in SequenceOpcodes -> CurInstr.arg[2]
      [] CurInstr.op = "BUILD_MAP" -> 2 * CurInstr.arg[2]
      [] CurInstr.op \in {"BUILD_CONST_KEY_MAP", "CALL_METHOD"} -> CurInstr.arg[2] + 1
      [] CurInstr.op \in {"DUP_TOP", "DUP_TOP_TWO"} -> 0

\* the documented push count q of that opcode
PushCount == IF CurInstr.op = "DUP_TOP_TWO" THEN 2 ELSE 1

\* the values the opcode reads: those it pops, and those DUP_TOP and
\* DUP_TOP_TWO copy
ReadCount ==
    CASE CurInstr.op = "DUP_TOP" -> 1
      [] CurInstr.op = "DUP_TOP_TWO" -> 2
      [] OTHER -> PopCount

\* the handler raises nothing: the frame goes on to its next instruction
Completes ==
    /\ state' = "running"
    /\ Len(frames') = Len(frames)

\* the depth after is the depth before - p + q, and the values below the
\* popped ones stay
StackEffect ==
    /\ Len(Cur'.data_stack) = Len(Stack) - PopCount + PushCount
    /\ SubSeq(Cur'.data_stack, 1, Len(Stack) - PopCount) = SubSeq(Stack, 1, Len(Stack) - PopCount)

\* C12: an opcode with documented pop count p and push count q that runs to
\* completion on a stack holding at least the values it reads (the p it pops;
\* one for DUP_TOP and two for DUP_TOP_TWO, which copy them) leaves depth
\* before - p + q and does not touch the values below the popped ones.
C12_StackEffect ==
    [][(Documented /\ Len(Stack) >= ReadCount /\ Completes) => StackEffect]_vars

\* C12 as stated: the same for every stack holding at least p values, with
\* p = 0 for DUP_TOP and DUP_TOP_TWO.
C12_AsStated ==
    [][(Documented /\ Len(Stack) >= PopCount /\ Completes) => StackEffect]_vars

\* BUILD_CONST_KEY_MAP 2 has run on [0, 1, 2, ("a", "b")]: three values
\* popped, one dict pushed, the 0 below kept
C12_Witness ==
    /\ last.op = "BUILD_CONST_KEY_MAP" /\ last.arg[2] = 2 /\ state = "running"
    /\ Len(last.fr.data_stack) = 4
    /\ Len(Cur.data_stack) = 2
    /\ Cur.data_stack[1] = last.fr.data_stack[1]
    /\ is_dict(Cur.data_stack[2])
    /\ Len(heap[Cur.data_stack[2][2]][2]) = 2


\* C13: popn(n) with 0 <= n <= depth returns the top n values deepest first
\* and takes them off the stack, and push(*returned) then makes the stack
\* what it was before the popn; popn(n) with n <= 0 returns the empty list
\* and leaves the stack alone.
C13_PopnPush ==
    LET n == last.arg[2][1][2]
        returned == last.arg[2][2][2]
        before == last.fr.data_stack
    IN /\ (last.op = "popn" /\ n <= 0) => (returned = <<>> /\ Stack = before)
       /\ (last.op = "popn" /\ n \in 0..Len(before)) =>
             /\ returned = [i \in 1..n |-> before[Len(before) - n + i]]
             /\ Stack = [i \in 1..(Len(before) - n) |-> before[i]]
       /\ (last.op = "push" /\ n <= Len(before)) => Stack = before

\* popn(2) took <<y, z>>, two different values, off [x, y, z] and push put
\* them back
C13_Witness ==
    /\ last.op = "push"
    /\ last.arg[2][1][2] = 2
    /\ Len(last.fr.data_stack) = 3
    /\ last.arg[2][2][2] = <<last.fr.data_stack[2], last.fr.data_stack[3]>>
    /\ last.fr.data_stack[2] # last.fr.data_stack[3]
    /\ Stack = last.fr.data_stack


\* the top-level frame is about to execute op on the name nm
AtTop(ops) == Len(frames) = 1 /\ \E op \in ops : Fetch(op)

\* C14: the top-level frame's local mapping and the global mapping hold the
\* same bindings in every state: what the top-level frame stores by name or
\* as a global is bound in both, what it deletes is bound in neither,
\* LOAD_GLOBAL in any frame finds the names bound in the top-level locals, and
\* LOAD_NAME and LOAD_FAST in the top-level frame find the globals.
C14_TopLevelScope ==
    [][/\ scopes'[frames'[1].locals] = scopes'[GlobalsId]
       /\ (AtTop({"STORE_NAME", "STORE_GLOBAL"}) /\ Len(Stack) > 0) =>
             /\ CurInstr.arg[2] \in DOMAIN scopes'[frames'[1].locals] \cap DOMAIN scopes'[GlobalsId]
             /\ scopes'[frames'[1].locals][CurInstr.arg[2]] = top(Stack)
             /\ scopes'[GlobalsId][CurInstr.arg[2]] = top(Stack)
       /\ (AtTop({"DELETE_NAME", "DELETE_GLOBAL"}) /\ state' = "running") =>
             CurInstr.arg[2] \notin DOMAIN scopes'[frames'[1].locals] \cup DOMAIN scopes'[GlobalsId]
       /\ (Fetch("LOAD_GLOBAL") /\ CurInstr.arg[2] \in DOMAIN scopes[frames[1].locals]) =>
             Pushed(scopes[frames[1].locals][CurInstr.arg[2]])
       /\ (AtTop({"LOAD_NAME", "LOAD_FAST"}) /\ CurInstr.arg[2] \in DOMAIN scopes[GlobalsId]) =>
             Pushed(scopes[GlobalsId][CurInstr.arg[2]])]_vars

\* a callee has run LOAD_GLOBAL x and got the value the top-level frame
\* stored with STORE_NAME x
C14_Witness ==
    /\ \E c \in Ints : code = Module(c, "STORE_NAME", <<>>, <<I("LOAD_NAME", S("f")), I("CALL_FUNCTION", N(0))>>)
    /\ last.op = "LOAD_GLOBAL" /\ last.depth = 2 /\ state = "running"
    /\ Len(frames) = 2
    /\ Cur.data_stack = <<scopes[frames[1].locals]["x"]>>
    /\ Cur.data_stack = <<code["main"].instrs[1].arg>>


\* C15: after JUMP_FORWARD, whose decoded operand is the target offset T, and
\* the loop's advance, f_lasti is T, an offset of the code unit, and the frame
\* goes on from there.
C15_ForwardJumpLandsOnTarget ==
    [][Fetch("JUMP_FORWARD") =>
         /\ state' = "running"
         /\ Len(frames') = Len(frames)
         /\ Cur'.f_lasti = CurInstr.arg[2]
         /\ Cur'.f_lasti \in DOMAIN instructions_offset(CurCode)]_vars

\* C16: while the interpreter runs, the f_lasti of every frame is an offset
\* of an instruction of the frame's code unit or the last offset + 2.
C16_ProgramCounterValid ==
    state = "running" =>
       \A i \in 1..Len(frames) :
          \/ frames[i].f_lasti \in DOMAIN instructions_offset(code[frames[i].code])
          \/ frames[i].f_lasti = MaxOffset(code[frames[i].code]) + UnitWidth

\* a call opcode finds the closure fn below its n positional arguments and
\* builds the frame of the call
CallsClosure(fn) ==
    /\ Fetch("CALL_FUNCTION")
    /\ Len(Stack) > CurInstr.arg[2]
    /\ fn = Stack[Len(Stack) - CurInstr.arg[2]]
    /\ fn[1] = "func"
    /\ Len(frames') = Len(frames) + 1

\* C17: the frame a call builds starts with the local scope the defining
\* frame had when MAKE_FUNCTION built the callable, overlaid by the bound
\* arguments: every name that is no parameter is bound in it as it was then,
\* whatever the defining frame has rebound, added or deleted since.
C17_CapturedSnapshot ==
    [][\A fn \in {Stack[i] : i \in 1..Len(Stack)} :
          CallsClosure(fn) =>
             LET made == fn[2][3]
                 c == code[fn[2][1][2]]
                 params == {c.co_varnames[i] : i \in 1..Len(c.co_varnames)}
                 loc == scopes'[Cur'.locals]
             IN /\ (DOMAIN loc) \ params = (DOMAIN made) \ params
                /\ \A nm \in (DOMAIN made) \ params : loc[nm] = made[nm]]_vars

\* a frame built by a call is about to execute op
InCallee(op) == Len(frames) >= 2 /\ Fetch(op)

\* C18: the local scope of a frame built by a call is no other frame's local
\* scope and not the global one, and a store or delete of a local name in it
\* changes no other scope; STORE_GLOBAL in it binds the name in the global
\* scope, and the return of the call leaves every scope as the callee left
\* it, so the caller finds the binding.
C18_LocalsPrivateGlobalsShared ==
    [][/\ (InCallee("STORE_FAST") \/ InCallee("STORE_NAME") \/ InCallee("DELETE_FAST")) =>
             /\ Cur.locals # GlobalsId
             /\ \A i \in 1..(Len(frames) - 1) : frames[i].locals # Cur.locals
             /\ \A i \in (1..Len(scopes)) \ {Cur.locals} : scopes'[i] = scopes[i]
       /\ (InCallee("STORE_GLOBAL") /\ Len(Stack) > 0) =>
             /\ CurInstr.arg[2] \in DOMAIN scopes'[GlobalsId]
             /\ scopes'[GlobalsId][CurInstr.arg[2]] = top(Stack)
       /\ (state' = "running" /\ Len(frames') < Len(frames)) =>
             /\ scopes' = scopes
             /\ frames'[Len(frames')].locals = frames[Len(frames')].locals]_vars

\* the second invocation of f has returned to the module: each invocation
\* bound t in a scope of its own, the module's scope has no t, and the g the
\* second invocation stored as a global is bound in the module's scope
C18_Witness ==
    /\ \E c \in Ints : code = Scopes(c, <<>>, "STORE_NAME")
    /\ last.op = "run" /\ last.note = "return" /\ state = "running"
    /\ Len(frames) = 1 /\ Len(scopes) = 3
    /\ "t" \in DOMAIN scopes[2] /\ "t" \in DOMAIN scopes[3]
    /\ "t" \notin DOMAIN scopes[Cur.locals]
    /\ scopes[2]["a"] = N(1) /\ scopes[3]["a"] = N(2)
    /\ scopes[Cur.locals]["g"] = N(2)

\* the running frame is about to execute an instruction whose handler raises
\* the error t: a name that is bound nowhere, or an opcode without a handler
Raising(t) ==
    /\ state = "running"
    /\ Cur.f_lasti \in DOMAIN instructions_offset(CurCode)
    /\ \/ /\ t = "NameError"
          /\ CurInstr.op \in {"LOAD_NAME", "LOAD_GLOBAL"}
          /\ CurInstr.arg[2] \notin DOMAIN scopes[GlobalsId] \cup DOMAIN Builtins
          /\ CurInstr.op = "LOAD_NAME" => CurInstr.arg[2] \notin DOMAIN scopes[Cur.locals]
       \/ /\ t = "UnboundLocalError"
          /\ CurInstr.op = "LOAD_FAST"
          /\ CurInstr.arg[2] \notin DOMAIN scopes[Cur.locals]
       \/ /\ t = "AttributeError"
          /\ CurInstr.op \in Unhandled

\* C19: an instruction whose handler raises, in a frame at any call depth,
\* ends the run with that error: no frame executes anything after it, the
\* calling frames, the scopes and the heap stay as they were, and the error
\* is the outcome of VirtualMachine.run.  The exhaustion of the iterator in
\* FOR_ITER is the one signal that does not end the run.
C19_ErrorsPropagate ==
    [][/\ state = "running"
       /\ \A t \in {"NameError", "UnboundLocalError", "AttributeError"} :
             Raising(t) => (state' = "raised" /\ result' = ErrV(t))
       /\ state' = "raised" =>
             /\ result'[1] = "error"
             /\ Len(frames') = Len(frames)
             /\ \A i \in 1..(Len(frames) - 1) : frames'[i] = frames[i]
             /\ Cur'.f_lasti = Cur.f_lasti
             /\ scopes' = scopes
             /\ heap' = heap
       /\ (Fetch("FOR_ITER") /\ Len(Stack) > 0 /\ top(Stack)[1] = "ref" /\ heap[top(Stack)[2]][1] = "iter") =>
             state' = "running"]_vars

\* LOAD_GLOBAL of a name bound nowhere has raised NameError in the third
\* nested call of f: the run has ended with that error and the three calling
\* frames still stand in their call opcodes
C19_Witness ==
    /\ state = "raised" /\ result = ErrV("NameError")
    /\ last.op = "LOAD_GLOBAL" /\ last.note = "raise"
    /\ Len(frames) = 4
    /\ instructions_offset(code["main"])[frames[1].f_lasti].op = "CALL_FUNCTION"
    /\ \A i \in 2..3 : instructions_offset(code["f"])[frames[i].f_lasti].op = "CALL_FUNCTION"

\* C20: LOAD_FAST pushes the binding its name has in the frame's local scope
\* and changes no scope; a name that is not bound there raises
\* UnboundLocalError, also when the global or the builtin scope binds it, and
\* leaves the stack and the scopes as they were.
C20_LoadFastLocalOnly ==
    [][Fetch("LOAD_FAST") =>
         LET nm == CurInstr.arg[2]
             loc == scopes[Cur.locals]
         IN /\ scopes' = scopes
            /\ nm \in DOMAIN loc => Pushed(loc[nm])
            /\ nm \notin DOMAIN loc =>
                  /\ state' = "raised"
                  /\ result' = ErrV("UnboundLocalError")
                  /\ Len(frames') = Len(frames)
                  /\ Cur'.data_stack = Stack]_vars

\* LOAD_FAST has raised UnboundLocalError for a name that the global scope
\* and the builtins bind and the frame's local scope does not
C20_Witness ==
    /\ state = "raised" /\ result = ErrV("UnboundLocalError")
    /\ last.op = "LOAD_FAST" /\ last.note = "raise"
    /\ last.arg[2] \in DOMAIN scopes[GlobalsId]
    /\ last.arg[2] \in DOMAIN Builtins
    /\ last.arg[2] \notin DOMAIN scopes[Cur.locals]
    /\ Cur.locals # GlobalsId
    /\ Cur.data_stack = last.fr.data_stack

\* C21: with a value to test on the stack, JUMP_IF_FALSE_OR_POP keeps it and
\* jumps when it is falsy and pops it and falls through otherwise,
\* JUMP_IF_TRUE_OR_POP keeps it and jumps when it is truthy and pops it and
\* falls through otherwise, and POP_JUMP_IF_FALSE and POP_JUMP_IF_TRUE pop
\* exactly that value on both branches; nothing below it changes, and the
\* frame then stands at the target when the branch is taken and at the
\* following instruction otherwise.
C21_ConditionalJumps ==
    [][((\E cj \in CondJumps : Fetch(cj)) /\ Len(Stack) > 0) =>
         LET op == CurInstr.op
             taken == IF op \in {"JUMP_IF_FALSE_OR_POP", "POP_JUMP_IF_FALSE"}
                      THEN ~Truthy(top(Stack)) ELSE Truthy(top(Stack))
             keeps == taken /\ op \in {"JUMP_IF_FALSE_OR_POP", "JUMP_IF_TRUE_OR_POP"}
         IN /\ state' = "running"
            /\ Len(frames') = Len(frames)
            /\ Cur'.data_stack = IF keeps THEN Stack ELSE SubSeq(Stack, 1, Len(Stack) - 1)
            /\ Cur'.f_lasti = IF taken THEN CurInstr.arg[2] ELSE Cur.f_lasti + UnitWidth
            /\ Cur'.f_lasti \in DOMAIN instructions_offset(CurCode)
            /\ scopes' = scopes /\ heap' = heap]_vars

\* JUMP_IF_TRUE_OR_POP has tested a truthy tuple above the constant 7: both
\* values are still on the stack and the frame stands at the target, which
\* is not the following instruction
C21_Witness ==
    /\ last.op = "JUMP_IF_TRUE_OR_POP" /\ last.note = "jump" /\ state = "running"
    /\ Len(last.fr.data_stack) = 2
    /\ last.fr.data_stack[2][1] = "tuple"
    /\ Cur.data_stack = last.fr.data_stack
    /\ Cur.f_lasti = last.arg[2]
    /\ last.arg[2] # last.fr.f_lasti + UnitWidth

\* C22: a call that passes a keyword whose name is a positional-only
\* parameter of the code unit is rejected, with or without the
\* catch-all-keyword flag: no frame is built for it.
C22_PositionalOnlyAsKeyword ==
    \A i \in Callees :
       LET c == code[frames[i].code]
       IN \A j \in 1..c.co_posonlyargcount : c.co_varnames[j] \notin DOMAIN frames[i].kwargs


\* the running frame is about to execute CALL_METHOD n on a stack that holds
\* the n arguments above the callee slot
CallsMethod == Fetch("CALL_METHOD") /\ Len(Stack) > CurInstr.arg[2]

\* the LOAD_METHOD that filled the callee slot, n constant loads before the
\* CALL_METHOD n, and the receiver it looked the name up on: the constant
\* loaded before it, or the list built before it
Lookup == CurCode.instrs[(Cur.f_lasti \div UnitWidth) - CurInstr.arg[2]]
Receiver ==
    LET load == CurCode.instrs[(Cur.f_lasti \div UnitWidth) - CurInstr.arg[2] - 1]
    IN IF load.op = "LOAD_CONST" THEN load.arg ELSE RefV(Len(heap))

\* C23: LOAD_METHOD on an object without the named attribute pushes None and
\* raises nothing; CALL_METHOD n with None in the callee slot pops the n
\* arguments and the None and pushes None, calling nothing; the callee slot
\* holds None only when the attribute was missing, and otherwise the
\* attribute LOAD_METHOD found is called with the n arguments in push order.
C23_MethodSentinel ==
    [][/\ (Fetch("LOAD_METHOD") /\ Len(Stack) > 0 /\ ~has_attr(top(Stack), CurInstr.arg[2])) =>
            /\ state' = "running"
            /\ Len(frames') = Len(frames)
            /\ Cur'.data_stack = Append(SubSeq(Stack, 1, Len(Stack) - 1), NoneV)
       /\ CallsMethod =>
            LET n == CurInstr.arg[2]
                args == SubSeq(Stack, Len(Stack) - n + 1, Len(Stack))
                callee == Stack[Len(Stack) - n]
                below == SubSeq(Stack, 1, Len(Stack) - n - 1)
            IN /\ callee = NoneV =>
                    /\ state' = "running"
                    /\ Len(frames') = Len(frames)
                    /\ Cur'.data_stack = Append(below, NoneV)
               /\ Lookup.op = "LOAD_METHOD" =>
                    /\ callee = NoneV <=> ~has_attr(Receiver, Lookup.arg[2])
                    /\ callee # NoneV =>
                          /\ callee = MethodV(Receiver, Lookup.arg[2])
                          /\ method_call(callee, args)[1] = "" =>
                                /\ state' = "running"
                                /\ Cur'.data_stack = Append(below, method_call(callee, args)[2])
                          /\ method_call(callee, args)[1] # "" =>
                                /\ state' = "raised"
                                /\ result' = ErrV(method_call(callee, args)[1])]_vars

====
